---- MODULE Spec2Model ----
(***************************************************************************)
(* A model of the mario validation engine (mario/validation.py): one       *)
(* Validator object over a Dataset Specification, a Metadata collection    *)
(* and a backing table, with its accumulated errors and warnings lists;    *)
(* of Metadata collections as they are built, saved and loaded             *)
(* (mario/metadata.py); of the data extractors, their streaming calls and  *)
(* the saving of a HyperFile as a delimited file                           *)
(* (mario/data_extractor.py); and of the checks a DatasetSplitter makes    *)
(* on its folders (mario/dataset_splitter.py).                             *)
(***************************************************************************)
EXTENDS Integers, Sequences, FiniteSets, TLC

VARIABLES
    backend,      \* which Validator subclass the object is
    metadata,     \* Metadata._items: a list of items (name plus properties)
    dimensions,   \* DatasetSpecification._dimensions
    measures,     \* DatasetSpecification._measures
    data,         \* the backing table: columns, their storage types, rows;
                  \* for an extractor the frame in its _data
    errors,       \* Validator.errors
    warnings,     \* Validator.warnings
    last,         \* the last call made and how it ended
    collection,   \* the Metadata object itself: its name and its properties
    file,         \* the JSON document Metadata.save wrote, if any
    extractor,    \* the DataExtractor object: its class, whether _data is set
    source,       \* the view or file the extractor's Configuration points at
    constraints,  \* DatasetSpecification._constraints
    stream,       \* the stream_sql_to_* call in progress and its locals
    connections,  \* the database connections opened and not closed
    queries,      \* the queries executed so far, in order
    output,       \* the lines or rows written to the output file so far
    folders       \* the folders of the file system a DatasetSplitter is given

extractor_vars == <<extractor, source, constraints, stream, connections, queries, output, folders>>

vars == <<backend, metadata, dimensions, measures, data, errors, warnings, last, collection, file, extractor, source, constraints, stream, connections, queries, output, folders>>

----------------------------------------------------------------------------
(* Bounds of the model *)

\* cell values are 1..MaxVal (and the null sentinel)
MaxVal == 3
\* the column of a one-item validator has at most MaxRows rows
MaxRows == 2
\* calls are made while the two lists together hold fewer than MaxLog messages
MaxLog == 2

\* The null sentinel (Python None) of __get_column_values__
NULL == 0

\* float NaN: what pandas.read_sql makes of a NULL in a numeric column
NaN == -1

Values == 1..MaxVal
Cells == Values \cup {NULL}

----------------------------------------------------------------------------
(* Sequences *)

SeqToSet(s) == {s[i] : i \in 1..Len(s)}

Count(s, x) == Cardinality({i \in 1..Len(s) : s[i] = x})

RECURSIVE Unique(_)
\* the elements of s in order of first appearance (Series.unique, SELECT DISTINCT)
Unique(s) ==
    IF s = <<>> THEN <<>>
    ELSE LET front == Unique(SubSeq(s, 1, Len(s) - 1))
         IN  IF s[Len(s)] \in SeqToSet(front) THEN front ELSE Append(front, s[Len(s)])

RECURSIVE Sum(_)
Sum(s) == IF s = <<>> THEN 0 ELSE s[1] + Sum(Tail(s))

SetMin(S) == CHOOSE x \in S : \A y \in S : x <= y

SetMax(S) == CHOOSE x \in S : \A y \in S : x >= y

----------------------------------------------------------------------------
(* Metadata and Dataset Specification *)

\* MarioBase.get_property(name) is not None
HasProperty(item, name) == name \in DOMAIN item

\* Metadata.get_metadata: the index of the first item of that name, 0 for None
get_metadata(name) == IF \E i \in 1..Len(metadata) : metadata[i].name = name THEN SetMin({i \in 1..Len(metadata) : metadata[i].name = name}) ELSE 0

\* DatasetSpecification.items
items == dimensions \o measures

\* Validator.__get_column_name__
get_column_name(item) == IF HasProperty(item, "output_name") THEN item.output_name ELSE IF HasProperty(item, "physical_column_name") THEN item.physical_column_name ELSE item.name

----------------------------------------------------------------------------
(* The run state a check works on: the two lists, and the exception that   *)
(* is propagating ("none" while the call is still running normally).       *)

RunState(errs, warns) == [errors |-> errs, warnings |-> warns, exc |-> "none"]

AddError(v, msg) == [v EXCEPT !.errors = Append(@, msg)]

AddWarning(v, msg) == [v EXCEPT !.warnings = Append(@, msg)]

Raise(v, exception) == [v EXCEPT !.exc = exception]

\* the exception a backend raises when asked for a column it does not hold
MissingColumnError == CASE backend = "DataFrame" -> "KeyError" [] backend = "Hyper" -> "HyperException" [] OTHER -> "DatabaseError"

----------------------------------------------------------------------------
(* Backend primitives *)

HasColumn(column) == column \in SeqToSet(data.columns)

\* the column as a list of cells, one per row
Series(column) == [i \in 1..Len(data.rows) |-> data.rows[i][column]]

\* the SQL types whose columns pandas.read_sql reads as numbers
SqlNumeric == {"tinyint", "int", "real", "decimal", "double precision"}

\* a NULL cell as the backend's list of values holds it: None from pandas
\* after replace({pd.NA: None}) and from Hyper; from read_sql None in a
\* column of objects and NaN in a column of numbers
Read(column, cell) == IF cell = NULL /\ backend = "Sql" /\ data.dtypes[column] \in SqlNumeric THEN NaN ELSE cell

\* the values of every row, repeated as often as they occur
get_column_values_OfEveryRow(item) == [i \in 1..Len(data.rows) |-> Read(get_column_name(item), data.rows[i][get_column_name(item)])]

\* __get_column_values__: the distinct values of the column
get_column_values(item) == LET values == Unique(Series(get_column_name(item))) IN [i \in 1..Len(values) |-> Read(get_column_name(item), values[i])]

\* __contains_nulls__: None in self.__get_column_values__(item)
contains_nulls(item) == NULL \in SeqToSet(get_column_values(item))

NonNull(column) == SeqToSet(Series(column)) \ {NULL}

\* __get_minimum_maximum_values__: MIN and MAX skip nulls; no value at all
\* gives NaN in pandas and None in Hyper and SQL
HasMinimum(item) == NonNull(get_column_name(item)) # {}

data_min(item) == SetMin(NonNull(get_column_name(item)))

data_max(item) == SetMax(NonNull(get_column_name(item)))

\* DataTypes members are written as Python prints them
DataTypes == {"DataTypes.TEXT", "DataTypes.DATE", "DataTypes.INT", "DataTypes.DOUBLE", "DataTypes.DATETIME", "DataTypes.OBJECT"}

\* DataFrameValidator.__get_column_data_type__
DataFrameType(raw) ==
    CASE raw \in {"category", "string"} -> "DataTypes.TEXT"
      [] raw \in {"float64"} -> "DataTypes.DOUBLE"
      [] raw \in {"int", "int64"} -> "DataTypes.INT"
      [] raw \in {"datetime64", "datetime64[ns]"} -> "DataTypes.DATETIME"
      [] raw \in {"object"} -> "DataTypes.OBJECT"
      [] OTHER -> raw

\* HyperValidator.__get_column_data_type__
HyperType(raw) ==
    CASE raw \in {"TypeTag.TEXT", "TypeTag.CHAR"} -> "DataTypes.TEXT"
      [] raw \in {"TypeTag.BIG_INT", "TypeTag.INT", "TypeTag.SMALL_INT"} -> "DataTypes.INT"
      [] raw \in {"TypeTag.DOUBLE", "TypeTag.NUMERIC"} -> "DataTypes.DOUBLE"
      [] raw \in {"TypeTag.DATE"} -> "DataTypes.DATE"
      [] raw \in {"TypeTag.TIMESTAMP", "TypeTag.TIMESTAMP_TZ"} -> "DataTypes.DATETIME"
      [] OTHER -> raw

\* SqlValidator.__get_column_data_type__
SqlType(raw) ==
    CASE raw \in {"tinyint", "int"} -> "DataTypes.INT"
      [] raw \in {"char", "varchar", "nvarchar", "varbinary", "text"} -> "DataTypes.TEXT"
      [] raw \in {"real", "decimal", "double precision"} -> "DataTypes.DOUBLE"
      [] raw \in {"date"} -> "DataTypes.DATE"
      [] raw \in {"datetime"} -> "DataTypes.DATETIME"
      [] OTHER -> raw

get_column_data_type(item) ==
    LET raw == data.dtypes[get_column_name(item)]
    IN  CASE backend = "DataFrame" -> DataFrameType(raw)
          [] backend = "Hyper" -> HyperType(raw)
          [] OTHER -> SqlType(raw)

----------------------------------------------------------------------------
(* Per-field checks of Validator.  Each takes the run state and gives the  *)
(* run state after the check; a check called while an exception is         *)
(* propagating is never reached.  Messages are kept as tuples: the kind of *)
(* message, then the parts the format string fills in.                     *)

\* DataTypes[expected_data_type.upper()] for the declared names of the model
Upper(name) ==
    CASE name \in {"text", "Text"} -> "TEXT"
      [] name \in {"date", "Date"} -> "DATE"
      [] name = "int" -> "INT"
      [] name = "double" -> "DOUBLE"
      [] name = "datetime" -> "DATETIME"
      [] name = "object" -> "OBJECT"
      [] name = "varchar" -> "VARCHAR"
      [] name = "string" -> "STRING"
      [] OTHER -> name

DataTypeNamed(upper) == "DataTypes." \o upper

\* a check that has no special case for OBJECT against DATE
check_data_type_ObjectIsError(v, item) ==
    IF ~HasProperty(item, "datatype") THEN v
    ELSE IF DataTypeNamed(Upper(item.datatype)) \notin DataTypes THEN Raise(v, "KeyError")
    ELSE IF ~HasColumn(get_column_name(item)) THEN Raise(v, MissingColumnError)
    ELSE LET expected_data_type == DataTypeNamed(Upper(item.datatype))
             actual_data_type == get_column_data_type(item)
         IN  IF actual_data_type = expected_data_type THEN v
             ELSE IF actual_data_type = "DataTypes.DATETIME" /\ expected_data_type = "DataTypes.DATE"
                  THEN AddWarning(v, <<"type", item.name, expected_data_type, actual_data_type>>)
             ELSE AddError(v, <<"type", item.name, expected_data_type, actual_data_type>>)

check_data_type(v, item) ==
    IF ~HasProperty(item, "datatype") THEN v
    ELSE IF DataTypeNamed(Upper(item.datatype)) \notin DataTypes THEN Raise(v, "KeyError")
    ELSE IF ~HasColumn(get_column_name(item)) THEN Raise(v, MissingColumnError)
    ELSE LET expected_data_type == DataTypeNamed(Upper(item.datatype))
             actual_data_type == get_column_data_type(item)
         IN  IF actual_data_type = expected_data_type THEN v
             ELSE IF actual_data_type = "DataTypes.DATETIME" /\ expected_data_type = "DataTypes.DATE"
                  THEN AddWarning(v, <<"type", item.name, expected_data_type, actual_data_type>>)
             ELSE IF actual_data_type = "DataTypes.OBJECT" /\ expected_data_type = "DataTypes.DATE"
                  THEN AddWarning(v, <<"type", item.name, expected_data_type, actual_data_type>>)
             ELSE AddError(v, <<"type", item.name, expected_data_type, actual_data_type>>)

\* a presence check that treats a calculated item as any other
check_column_present_OfCalculated(v, item) ==
    LET looked_up == IF backend = "Sql" THEN item.name ELSE get_column_name(item)
    IN  IF ~HasColumn(looked_up)
        THEN [v |-> AddError(v, <<"missing", item.name>>), result |-> FALSE]
        ELSE [v |-> v, result |-> TRUE]

\* DataFrameValidator / HyperValidator / SqlValidator .check_column_present:
\* the run state after the call, and the value returned
check_column_present(v, item) ==
    IF HasProperty(item, "formula") THEN [v |-> v, result |-> FALSE]
    ELSE LET looked_up == IF backend = "Sql" THEN item.name ELSE get_column_name(item)
         IN  IF ~HasColumn(looked_up)
             THEN [v |-> AddError(v, <<"missing", item.name>>), result |-> FALSE]
             ELSE [v |-> v, result |-> TRUE]

check_nulls(v, item, allow_nulls) ==
    IF ~HasColumn(get_column_name(item)) THEN Raise(v, MissingColumnError)
    ELSE IF contains_nulls(item)
         THEN IF allow_nulls THEN AddWarning(v, <<"nulls", item.name>>)
              ELSE AddError(v, <<"nulls", item.name>>)
         ELSE v

RECURSIVE DomainErrors(_, _, _)
\* the first loop of check_domain, over the data values
DomainErrors(v, item, data_domain) ==
    IF data_domain = <<>> THEN v
    ELSE LET element == Head(data_domain)
             w == IF element \notin SeqToSet(item.domain) THEN AddError(v, <<"domain", item.name, element>>) ELSE v
         IN  DomainErrors(w, item, Tail(data_domain))

RECURSIVE DomainWarnings(_, _, _)
\* the second loop of check_domain, over the declared domain
DomainWarnings(v, item, metadata_domain) ==
    IF metadata_domain = <<>> THEN v
    ELSE LET metadata_element == Head(metadata_domain)
             w == IF metadata_element \notin SeqToSet(get_column_values(item)) THEN AddWarning(v, <<"absent", item.name, metadata_element>>) ELSE v
         IN  DomainWarnings(w, item, Tail(metadata_domain))

check_domain(v, item) ==
    IF ~HasProperty(item, "domain") THEN v
    ELSE IF ~HasColumn(get_column_name(item)) THEN Raise(v, MissingColumnError)
    ELSE DomainWarnings(DomainErrors(v, item, get_column_values(item)), item, item.domain)

\* a range check whose second comparison is an elif of the first
check_range_Elif(v, item) ==
    IF ~HasProperty(item, "range") THEN v
    ELSE IF ~HasColumn(get_column_name(item)) THEN Raise(v, MissingColumnError)
    ELSE IF ~HasMinimum(item) THEN (IF backend = "DataFrame" THEN v ELSE Raise(v, "TypeError"))
    ELSE LET min_value == item.range[1]
             max_value == item.range[2]
         IN  IF data_min(item) < min_value THEN AddError(v, <<"less", item.name, data_min(item), min_value>>)
             ELSE IF data_max(item) > max_value THEN AddError(v, <<"greater", item.name, data_max(item), max_value>>)
             ELSE v

check_range(v, item) ==
    IF ~HasProperty(item, "range") THEN v
    ELSE IF ~HasColumn(get_column_name(item)) THEN Raise(v, MissingColumnError)
    ELSE IF ~HasMinimum(item) THEN (IF backend = "DataFrame" THEN v ELSE Raise(v, "TypeError"))
    ELSE LET min_value == item.range[1]
             max_value == item.range[2]
             w == IF data_min(item) < min_value THEN AddError(v, <<"less", item.name, data_min(item), min_value>>) ELSE v
         IN  IF data_max(item) > max_value THEN AddError(w, <<"greater", item.name, data_max(item), max_value>>) ELSE w

DigitChar(d) == CASE d = 0 -> "0" [] d = 1 -> "1" [] d = 2 -> "2" [] d = 3 -> "3" [] d = 4 -> "4" [] d = 5 -> "5" [] d = 6 -> "6" [] d = 7 -> "7" [] d = 8 -> "8" [] OTHER -> "9"

RECURSIVE Digits(_)
Digits(n) == IF n < 10 THEN <<DigitChar(n)>> ELSE Append(Digits(n \div 10), DigitChar(n % 10))

\* str(value), as a list of characters
Str(value) == IF value = NULL THEN <<"N", "o", "n", "e">> ELSE IF value = NaN THEN <<"n", "a", "n">> ELSE Digits(value)

\* re.match for a pattern that is a run of character classes: the pattern
\* has to match a prefix of the text
re_match(pattern, text) == Len(pattern) <= Len(text) /\ \A i \in 1..Len(pattern) : text[i] \in pattern[i]

RECURSIVE PatternErrors(_, _, _)
PatternErrors(v, item, values) ==
    IF values = <<>> THEN v
    ELSE LET value == Head(values)
             w == IF value # NULL /\ ~re_match(item.pattern, Str(value)) THEN AddError(v, <<"pattern", item.name, value, item.pattern>>) ELSE v
         IN  PatternErrors(w, item, Tail(values))

check_pattern_match(v, item) ==
    IF ~HasProperty(item, "pattern") THEN v
    ELSE IF ~HasColumn(get_column_name(item)) THEN Raise(v, MissingColumnError)
    ELSE PatternErrors(v, item, get_column_values(item))

check_quality_checks(v, item) ==
    IF ~HasProperty(item, "formula") /\ ~HasProperty(item, "range") /\ ~HasProperty(item, "domain") /\ ~HasProperty(item, "pattern")
    THEN AddWarning(v, <<"norules", item.name>>)
    ELSE v

\* a statement reached only while no exception is propagating
Then(v, w) == IF v.exc # "none" THEN v ELSE w

ChecksOfPresentItem(v, item, allow_nulls) ==
    LET v1 == check_nulls(v, item, allow_nulls)
        v2 == Then(v1, check_domain(v1, item))
        v3 == Then(v2, check_range(v2, item))
        v4 == Then(v3, check_quality_checks(v3, item))
        v5 == Then(v4, check_data_type(v4, item))
    IN  Then(v5, check_pattern_match(v5, item))

validate_data_item(v, name, allow_nulls) ==
    IF get_metadata(name) = 0 THEN Raise(v, "AttributeError")
    ELSE LET item == metadata[get_metadata(name)]
             present == check_column_present(v, item)
         IN  IF present.result THEN ChecksOfPresentItem(present.v, item, allow_nulls) ELSE present.v

----------------------------------------------------------------------------
(* Hierarchies *)

RECURSIVE SetToSeq(_)
SetToSeq(S) == IF S = {} THEN <<>> ELSE LET x == CHOOSE y \in S : TRUE IN <<x>> \o SetToSeq(S \ {x})

\* Metadata.get_hierarchies: the names of all hierarchies, as a list
get_hierarchies == SetToSeq(UNION {{item.hierarchies[k].hierarchy : k \in 1..Len(item.hierarchies)} : item \in {m \in SeqToSet(metadata) : HasProperty(m, "hierarchies")}})

RECURSIVE MembersOfItem(_, _, _)
\* the memberships of one item in the named hierarchy, from its k-th on
MembersOfItem(item, name, k) ==
    IF k > Len(item.hierarchies) THEN <<>>
    ELSE (IF item.hierarchies[k].hierarchy = name THEN <<[name |-> item.name, level |-> item.hierarchies[k].level]>> ELSE <<>>) \o MembersOfItem(item, name, k + 1)

RECURSIVE MembersFrom(_, _)
\* the loop of get_hierarchy over the items, from the i-th on
MembersFrom(i, name) ==
    IF i > Len(metadata) THEN <<>>
    ELSE (IF HasProperty(metadata[i], "hierarchies") THEN MembersOfItem(metadata[i], name, 1) ELSE <<>>) \o MembersFrom(i + 1, name)

RECURSIVE SortedByLevel(_)
\* sorted(items, key=level): a stable sort
SortedByLevel(s) ==
    IF s = <<>> THEN <<>>
    ELSE LET front == SortedByLevel(SubSeq(s, 1, Len(s) - 1))
             x == s[Len(s)]
             n == Cardinality({i \in 1..Len(front) : front[i].level <= x.level})
         IN  SubSeq(front, 1, n) \o <<x>> \o SubSeq(front, n + 1, Len(front))

\* Metadata.get_hierarchy: the item names of the hierarchy in level order
get_hierarchy(name) == [i \in 1..Len(SortedByLevel(MembersFrom(1, name))) |-> SortedByLevel(MembersFrom(1, name))[i].name]

\* __get_data_for_hierarchy__: the rows restricted to the level columns,
\* deduplicated; each as <<higher level values, last level value>>
get_data_for_hierarchy(levels) == Unique([i \in 1..Len(data.rows) |-> <<[k \in 1..(Len(levels) - 1) |-> data.rows[i][levels[k]]], data.rows[i][levels[Len(levels)]]>>])

RECURSIVE LexLess(_, _)
LexLess(a, b) == a # <<>> /\ (a[1] < b[1] \/ (a[1] = b[1] /\ LexLess(Tail(a), Tail(b))))

RECURSIVE SortedKeys(_)
SortedKeys(S) == IF S = {} THEN <<>> ELSE LET x == CHOOSE y \in S : \A z \in S \ {y} : LexLess(y, z) IN <<x>> \o SortedKeys(S \ {x})

RECURSIVE RowsOfGroup(_, _)
RowsOfGroup(df, key) == IF df = <<>> THEN <<>> ELSE (IF Head(df)[1] = key THEN <<Head(df)>> ELSE <<>>) \o RowsOfGroup(Tail(df), key)

RECURSIVE GroupedRows(_, _)
\* df.groupby(levels[:-1]): the groups in sorted key order, each group's rows
\* in frame order; a key holding a null makes no group
GroupedRows(df, keys) == IF keys = <<>> THEN <<>> ELSE RowsOfGroup(df, Head(keys)) \o GroupedRows(df, Tail(keys))

grouped(df) == GroupedRows(df, SortedKeys({df[i][1] : i \in {j \in 1..Len(df) : NULL \notin SeqToSet(df[j][1])}}))

RECURSIVE HierarchyLoop_OncePerValue(_, _, _, _)
\* a loop that reports a value once, at its second combination, and never again
HierarchyLoop_OncePerValue(v, last_level, pairs, hierarchy) ==
    IF pairs = <<>> THEN v
    ELSE LET higher_levels == Head(pairs)[1]
             value == Head(pairs)[2]
             known == {i \in 1..Len(hierarchy) : hierarchy[i][1] = value}
             reported == \E i \in 1..Len(v.errors) : v.errors[i][1] = "hierarchy" /\ v.errors[i][2] = value
         IN  IF known = {} THEN HierarchyLoop_OncePerValue(v, last_level, Tail(pairs), Append(hierarchy, <<value, higher_levels>>))
             ELSE IF hierarchy[SetMin(known)][2] # higher_levels /\ ~reported
                  THEN HierarchyLoop_OncePerValue(AddError(v, <<"hierarchy", value, last_level, hierarchy[SetMin(known)][2], higher_levels>>), last_level, Tail(pairs), hierarchy)
             ELSE HierarchyLoop_OncePerValue(v, last_level, Tail(pairs), hierarchy)

RECURSIVE HierarchyLoop(_, _, _, _)
\* the loop of __check_hierarchy__ over the grouped values; hierarchy is the
\* dictionary built so far, a list of <<value, higher levels>> entries
HierarchyLoop(v, last_level, pairs, hierarchy) ==
    IF pairs = <<>> THEN v
    ELSE LET higher_levels == Head(pairs)[1]
             value == Head(pairs)[2]
             known == {i \in 1..Len(hierarchy) : hierarchy[i][1] = value}
         IN  IF known = {} THEN HierarchyLoop(v, last_level, Tail(pairs), Append(hierarchy, <<value, higher_levels>>))
             ELSE IF hierarchy[SetMin(known)][2] # higher_levels
                  THEN HierarchyLoop(AddError(v, <<"hierarchy", value, last_level, hierarchy[SetMin(known)][2], higher_levels>>), last_level, Tail(pairs), hierarchy)
             ELSE HierarchyLoop(v, last_level, Tail(pairs), hierarchy)

\* Validator.__check_hierarchy__
check_hierarchy(v, name) ==
    LET levels == get_hierarchy(name)
    IN  IF \E k \in 1..Len(levels) : ~HasColumn(levels[k]) THEN Raise(v, MissingColumnError)
        ELSE IF Len(levels) < 2 THEN Raise(v, "ValueError: No group keys passed!")
        ELSE HierarchyLoop(v, levels[Len(levels)], grouped(get_data_for_hierarchy(levels)), <<>>)

RECURSIVE HierarchiesLoop(_, _)
HierarchiesLoop(v, names) == IF names = <<>> \/ v.exc # "none" THEN v ELSE HierarchiesLoop(check_hierarchy(v, Head(names)), Tail(names))

\* Validator.check_hierarchies
check_hierarchies(v) == HierarchiesLoop(v, get_hierarchies)

----------------------------------------------------------------------------
(* Anomaly detection *)

\* the absent value of an optional string argument
None == "<None>"

\* __get_column_with_segmentation__: per segment, the number of distinct
\* non-null values of the column.  pandas groupby leaves out the null
\* segment; GROUP BY in Hyper and SQL keeps it
get_column_with_segmentation(item, segmentation) ==
    LET column == get_column_name(item)
        all == SeqToSet(Series(segmentation))
        segments == SetToSeq(IF backend = "DataFrame" THEN all \ {NULL} ELSE all)
    IN  [k \in 1..Len(segments) |-> Cardinality({data.rows[i][column] : i \in {j \in 1..Len(data.rows) : data.rows[j][segmentation] = segments[k]}} \ {NULL})]

\* __check_for_anomalies__ with threshold 1.75: some |x - mean| / std > 7/4,
\* std the sample deviation; in integers, with n = len, S = sum:
\*   16 (n - 1) (n x - S)^2 > 49 * sum over y of (n y - S)^2
\* (a NaN score, for n = 1 or std = 0, compares false: both sides are 0)
check_for_anomalies(series) ==
    LET n == Len(series)
        S == Sum(series)
        sq == [i \in 1..n |-> (n * series[i] - S) * (n * series[i] - S)]
    IN  \E i \in 1..n : 16 * (n - 1) * sq[i] > 49 * Sum(sq)

\* Validator.check_item_for_anomalies
check_item_for_anomalies(v, name, segmentation) ==
    IF get_metadata(name) = 0 THEN Raise(v, "AttributeError")
    ELSE LET item == metadata[get_metadata(name)]
         IN  IF ~HasColumn(segmentation) \/ ~HasColumn(get_column_name(item)) THEN Raise(v, MissingColumnError)
             ELSE IF check_for_anomalies(get_column_with_segmentation(item, segmentation))
                  THEN AddWarning(v, <<"anomaly", item.name, segmentation>>)
             ELSE v

RECURSIVE AnomaliesLoop(_, _, _)
AnomaliesLoop(v, names, segmentation) == IF names = <<>> \/ v.exc # "none" THEN v ELSE AnomaliesLoop(check_item_for_anomalies(v, Head(names), segmentation), Tail(names), segmentation)

\* Validator.check_category_anomalies
check_category_anomalies(v, segmentation) == AnomaliesLoop(v, dimensions, segmentation)

----------------------------------------------------------------------------
(* Validator.validate_data *)

RECURSIVE ItemsLoop_UntilFirstError(_, _, _)
\* a loop that gives up at the first item that recorded an error
ItemsLoop_UntilFirstError(v, names, allow_nulls) == IF names = <<>> \/ v.exc # "none" \/ v.errors # <<>> THEN v ELSE ItemsLoop_UntilFirstError(validate_data_item(v, Head(names), allow_nulls), Tail(names), allow_nulls)

RECURSIVE ItemsLoop(_, _, _)
\* for item in self.dataset_specification.items: self.validate_data_item(...)
ItemsLoop(v, names, allow_nulls) == IF names = <<>> \/ v.exc # "none" THEN v ELSE ItemsLoop(validate_data_item(v, Head(names), allow_nulls), Tail(names), allow_nulls)

\* a termination that raises on warnings as well
Termination_OnAnyMessage(v) == IF Len(v.errors) # 0 \/ Len(v.warnings) # 0 THEN Raise(v, "ValueError: Data validation failed") ELSE v

\* if len(self.errors) != 0: raise ValueError("Data validation failed ...")
Termination(v) == IF Len(v.errors) # 0 THEN Raise(v, "ValueError: Data validation failed") ELSE v

validate_data(v, allow_nulls, with_hierarchies, detect_anomalies, segmentation) ==
    LET v1 == ItemsLoop(v, items, allow_nulls)
        v2 == IF with_hierarchies THEN Then(v1, check_hierarchies(v1)) ELSE v1
        v3 == IF detect_anomalies
              THEN (IF segmentation # None THEN Then(v2, check_category_anomalies(v2, segmentation))
                    ELSE Then(v2, Raise(v2, "ValueError: A segmentation column must be supplied")))
              ELSE v2
    IN  Then(v3, Termination(v3))

----------------------------------------------------------------------------
(* Operations on the validator.  Each call starts from the lists as they   *)
(* are (they are set to [] only in __init__), leaves the lists as the call *)
(* left them, and records in last what was called and how the call ended:  *)
(* "none" for a normal return, otherwise the exception raised.             *)

Backends == {"DataFrame", "Hyper", "Sql"}

\* the arguments of a call that has none beyond an item and allow_nulls
NoFlags == <<FALSE, FALSE, None>>

Called(op, item, allow_nulls, flags, v) == [op |-> op, item |-> item, allow_nulls |-> allow_nulls, flags |-> flags, outcome |-> v.exc, errors0 |-> Len(errors), warnings0 |-> Len(warnings)]

\* the lists are unbounded in the code; the model stops calling at MaxLog
Room == Len(errors) + Len(warnings) < MaxLog

Finish(op, item, allow_nulls, flags, v) ==
    /\ errors' = v.errors
    /\ warnings' = v.warnings
    /\ last' = Called(op, item, allow_nulls, flags, v)
    /\ UNCHANGED <<backend, metadata, dimensions, measures, data>>
    /\ UNCHANGED <<collection, file>>
    /\ UNCHANGED extractor_vars

Now == RunState(errors, warnings)

ValidateData(allow_nulls, with_hierarchies, detect_anomalies, segmentation) ==
    /\ Room
    /\ Finish("validate_data", None, allow_nulls, <<with_hierarchies, detect_anomalies, segmentation>>, validate_data(Now, allow_nulls, with_hierarchies, detect_anomalies, segmentation))

ValidateDataItem(name, allow_nulls) ==
    /\ Room
    /\ Finish("validate_data_item", name, allow_nulls, NoFlags, validate_data_item(Now, name, allow_nulls))

CheckColumnPresent(i) ==
    /\ Room
    /\ Finish("check_column_present", metadata[i].name, TRUE, NoFlags, check_column_present(Now, metadata[i]).v)

CheckNulls(i, allow_nulls) ==
    /\ Room
    /\ Finish("check_nulls", metadata[i].name, allow_nulls, NoFlags, check_nulls(Now, metadata[i], allow_nulls))

CheckDomain(i) ==
    /\ Room
    /\ Finish("check_domain", metadata[i].name, TRUE, NoFlags, check_domain(Now, metadata[i]))

CheckRange(i) ==
    /\ Room
    /\ Finish("check_range", metadata[i].name, TRUE, NoFlags, check_range(Now, metadata[i]))

CheckQualityChecks(i) ==
    /\ Room
    /\ Finish("check_quality_checks", metadata[i].name, TRUE, NoFlags, check_quality_checks(Now, metadata[i]))

CheckDataType(i) ==
    /\ Room
    /\ Finish("check_data_type", metadata[i].name, TRUE, NoFlags, check_data_type(Now, metadata[i]))

CheckPatternMatch(i) ==
    /\ Room
    /\ Finish("check_pattern_match", metadata[i].name, TRUE, NoFlags, check_pattern_match(Now, metadata[i]))

CheckHierarchies ==
    /\ Room
    /\ Finish("check_hierarchies", None, TRUE, NoFlags, check_hierarchies(Now))

CheckCategoryAnomalies(segmentation) ==
    /\ Room
    /\ Finish("check_category_anomalies", segmentation, TRUE, NoFlags, check_category_anomalies(Now, segmentation))

----------------------------------------------------------------------------
(* The validators the model starts from.  __init__ sets both lists to [].  *)

\* storage type of the model's (integer) columns, per backend
IntegerColumn(b) == CASE b = "DataFrame" -> "int64" [] b = "Hyper" -> "TypeTag.INT" [] OTHER -> "int"

\* a table from the cells of each of its columns
Table(columns, cells, raw) == [columns |-> columns, dtypes |-> [c \in SeqToSet(columns) |-> raw[c]], rows |-> [i \in 1..Len(cells[columns[1]]) |-> [c \in SeqToSet(columns) |-> cells[c][i]]]]

\* no property set: MarioBase.__init__
NoProperties == [k \in {} |-> ""]

\* nothing written yet
NoFile == [written |-> FALSE, object |-> NoProperties, items |-> <<>>]

\* Metadata(): a collection named 'Metadata' without properties, nothing saved
DefaultCollection == collection = [name |-> "Metadata", properties |-> NoProperties] /\ file = NoFile

\* no extractor made, nothing read or written
NoExtractor ==
    /\ extractor = [kind |-> "none", loaded |-> FALSE]
    /\ folders = <<>>
    /\ source = [columns |-> <<>>, dtypes |-> <<>>, rows |-> <<>>]
    /\ constraints = <<>>
    /\ stream = [pc |-> "idle"]
    /\ connections = 0
    /\ queries = <<>>
    /\ output = <<>>

Fresh(b, md, dims, meas, table) ==
    /\ DefaultCollection
    /\ NoExtractor
    /\ backend = b
    /\ metadata = md
    /\ dimensions = dims
    /\ measures = meas
    /\ data = table
    /\ errors = <<>>
    /\ warnings = <<>>
    /\ last = [op |-> "__init__", item |-> None, allow_nulls |-> TRUE, flags |-> NoFlags, outcome |-> "none", errors0 |-> 0, warnings0 |-> 0]

\* A specification of dimensions A, B and measure C.  A may be stored under
\* another column name X or be calculated, B may declare a domain, a data
\* type that DataTypes does not know, or be calculated with every rule
\* declared, C may declare a range or a data type; or A and B form the
\* hierarchy H.
ProfilesA == {[name |-> "A"], [name |-> "A", physical_column_name |-> "X"], [name |-> "A", formula |-> ""]}

ProfilesB == {[name |-> "B"], [name |-> "B", domain |-> <<1, 2>>], [name |-> "B", datatype |-> "varchar"], [name |-> "B", formula |-> "[A]+1", domain |-> <<1, 2>>, range |-> <<2, 2>>, datatype |-> "varchar", pattern |-> <<{"9"}>>]}

ProfilesC == {[name |-> "C"], [name |-> "C", range |-> <<2, 2>>], [name |-> "C", datatype |-> "text"]}

InHierarchy(item, level) == item @@ [hierarchies |-> <<[hierarchy |-> "H", level |-> level]>>]

MetadataChoices == {<<a, b, c>> : a \in ProfilesA, b \in ProfilesB, c \in ProfilesC} \cup {<<InHierarchy([name |-> "A"], 1), InHierarchy([name |-> "B"], 2), c>> : c \in ProfilesC}

\* the cells of a column: all the same value inside every rule of the
\* profiles, or a null, a value below and a value above; A and X are of the
\* second kind
Clean == <<2, 2, 2>>

Dirty == <<NULL, 1, 3>>

ColumnSets == {<<"A", "B", "C">>, <<"A", "B">>, <<"X", "B", "C">>, <<"A", "X", "B", "C">>}

TableChoices(b) == {Table(columns, cells @@ [A |-> Dirty, X |-> Dirty], [c \in {"A", "B", "C", "X"} |-> IntegerColumn(b)]) : columns \in ColumnSets, cells \in [{"B", "C"} -> {Clean, Dirty}]}

Declares(md, name) == \E i \in 1..Len(md) : HasProperty(md[i], name)

Init ==
    \E b \in Backends, md \in MetadataChoices : \E table \in TableChoices(b) :
        /\ Declares(md, "hierarchies") => NULL \notin {table.rows[i]["B"] : i \in 1..Len(table.rows)}
        /\ Fresh(b, md, <<"A", "B">>, <<"C">>, table)

Segmentations == {None, "C"}

Next ==
    \/ \E allow_nulls, with_hierarchies, detect_anomalies \in BOOLEAN : \E segmentation \in (IF detect_anomalies THEN Segmentations ELSE {None}) : ValidateData(allow_nulls, with_hierarchies, detect_anomalies, segmentation)
    \/ \E name \in SeqToSet(items), allow_nulls \in BOOLEAN : ValidateDataItem(name, allow_nulls)

Spec == Init /\ [][Next]_vars

----------------------------------------------------------------------------
(* The checks called one at a time, as the tests call them, on a validator *)
(* of one item A whose column holds any cells.                             *)

RECURSIVE SeqsUpTo(_, _)
\* the lists over S of at most n elements
SeqsUpTo(S, n) == IF n = 0 THEN {<<>>} ELSE SeqsUpTo(S, n - 1) \cup {Append(q, x) : q \in {r \in SeqsUpTo(S, n - 1) : Len(r) = n - 1}, x \in S}

\* a declared domain: a list of values without repetition
DomainChoices == {SortedKeys({<<x>> : x \in S}) : S \in SUBSET Values}

Flat(keys) == [i \in 1..Len(keys) |-> keys[i][1]]

RangeChoices == {<<lo, hi>> : lo \in Values, hi \in Values}

PatternChoices == {<<{"1", "2"}>>, <<{"1", "2", "3", "4", "5", "6", "7", "8", "9"}, {"0"}>>}

RuleProfiles ==
    {[name |-> "A"], [name |-> "A", formula |-> "[B]*2"]}
        \cup {[name |-> "A", domain |-> Flat(d)] : d \in DomainChoices}
        \cup {[name |-> "A", range |-> r] : r \in {q \in RangeChoices : q[1] <= q[2]}}
        \cup {[name |-> "A", pattern |-> p] : p \in PatternChoices}

\* the declared data types: the six names of DataTypes, one in mixed case,
\* and two names DataTypes does not have
DeclaredTypes == {"text", "date", "Date", "int", "double", "datetime", "object", "varchar", "string"}

TypeProfiles == {[name |-> "A", datatype |-> t] : t \in DeclaredTypes}

\* what each backend may report as the storage type of a column
StorageTypes(b) ==
    CASE b = "DataFrame" -> {"category", "string", "float64", "int", "int64", "datetime64", "datetime64[ns]", "object", "bool"}
      [] b = "Hyper" -> {"TypeTag.TEXT", "TypeTag.CHAR", "TypeTag.BIG_INT", "TypeTag.INT", "TypeTag.SMALL_INT", "TypeTag.DOUBLE", "TypeTag.NUMERIC", "TypeTag.DATE", "TypeTag.TIMESTAMP", "TypeTag.TIMESTAMP_TZ", "TypeTag.BOOL"}
      [] OTHER -> {"tinyint", "int", "char", "varchar", "nvarchar", "varbinary", "text", "real", "decimal", "double precision", "date", "datetime", "bit"}

ColumnOf(cells, raw) == [columns |-> <<"A">>, dtypes |-> [c \in {"A"} |-> raw], rows |-> [i \in 1..Len(cells) |-> [c \in {"A"} |-> cells[i]]]]

InitChecks ==
    \E b \in Backends :
        \/ \E item \in RuleProfiles, cells \in SeqsUpTo(Cells, MaxRows) : Fresh(b, <<item>>, <<"A">>, <<>>, ColumnOf(cells, IntegerColumn(b)))
        \/ \E item \in TypeProfiles, raw \in StorageTypes(b), cells \in {<<1>>, <<NULL, 1>>} : Fresh(b, <<item>>, <<"A">>, <<>>, ColumnOf(cells, raw))

NextChecks ==
    \E i \in 1..Len(metadata) :
        \/ CheckColumnPresent(i)
        \/ \E allow_nulls \in BOOLEAN : CheckNulls(i, allow_nulls)
        \/ CheckDomain(i)
        \/ CheckRange(i)
        \/ CheckQualityChecks(i)
        \/ CheckDataType(i)
        \/ CheckPatternMatch(i)

SpecChecks == InitChecks /\ [][NextChecks]_vars

----------------------------------------------------------------------------
(* Validators of one hierarchy H, of two or of three levels, over a table  *)
(* of the level columns alone.  A higher-level cell may be null; the       *)
(* last-level cells are one of two values.                                 *)

\* the most rows such a table has
MaxPairs == 3

Names == <<"A", "B", "C">>

\* the level columns, from the first level to the last
LevelOrders == {<<"A", "B">>, <<"B", "A">>, <<"A", "B", "C">>}

Position(order, name) == CHOOSE i \in 1..Len(order) : order[i] = name

\* the items in metadata order, each with its level in H
Levelled(order) == [i \in 1..Len(order) |-> InHierarchy([name |-> Names[i]], Position(order, Names[i]))]

\* the values of the last level
LastLevel == {1, 2}

TwoLevels == {<<h, x>> : h \in Cells, x \in LastLevel}

\* the combinations of the first two levels of three
UpperLevels == {<<1, 1>>, <<1, 2>>, <<2, 1>>}

ThreeLevels == {<<u[1], u[2], x>> : u \in UpperLevels, x \in LastLevel}

\* the tables of at most MaxPairs rows, a row given in level order; the rows
\* in sorted order, repeats allowed
HierarchyRows(S) == {q \in SeqsUpTo(S, MaxPairs) : \A i \in 1..(Len(q) - 1) : q[i] = q[i + 1] \/ LexLess(q[i], q[i + 1])}

HierarchyTable(b, order, q) ==
    LET columns == SubSeq(Names, 1, Len(order))
    IN  Table(columns, [c \in SeqToSet(columns) |-> [i \in 1..Len(q) |-> q[i][Position(order, c)]]], [c \in SeqToSet(columns) |-> IntegerColumn(b)])

InitHierarchy ==
    \E b \in Backends, order \in LevelOrders :
        \E q \in HierarchyRows(IF Len(order) = 2 THEN TwoLevels ELSE ThreeLevels) :
            Fresh(b, Levelled(order), SubSeq(Names, 1, Len(order)), <<>>, HierarchyTable(b, order, q))

NextHierarchy ==
    \/ CheckHierarchies
    \/ \E allow_nulls \in BOOLEAN : ValidateData(allow_nulls, TRUE, FALSE, None)
    \/ \E segmentation \in SeqToSet(data.columns) : CheckCategoryAnomalies(segmentation)

SpecHierarchy == InitHierarchy /\ [][NextHierarchy]_vars

----------------------------------------------------------------------------
(* Metadata collections (mario/metadata.py) as they are built, saved and   *)
(* loaded.  Here an item is kept as Item keeps it: its name, its           *)
(* description and its dictionary of properties, a property value written  *)
(* as Python prints it.                                                    *)

\* the most items a collection is given
MaxItems == 2

\* f without the keys
Without(f, keys) == [k \in DOMAIN f \ keys |-> f[k]]

\* Item.to_json: name and description, then every property under its own
\* key, a property called name or description replacing the attribute
to_json(item) == item.properties @@ [name |-> item.name, description |-> item.description]

\* a value after json.dump and json.load: a tuple comes back as a list
json_value(value) == IF value = "(1, 2)" THEN "[1, 2]" ELSE value

json_object(object) == [k \in DOMAIN object |-> json_value(object[k])]

\* Metadata.save: the document written; the collection's properties are set
\* over its name
save == [written |-> TRUE, object |-> json_object(collection.properties @@ [name |-> collection.name]), items |-> [i \in 1..Len(metadata) |-> json_object(to_json(metadata[i]))]]

\* an item as metadata_from_json makes it from its JSON object
item_from_json(object) == [name |-> object["name"], description |-> (IF "description" \in DOMAIN object THEN object["description"] ELSE ""), properties |-> Without(object, {"name", "description"})]

\* a call outside the validator, and what it returned
Did(op, outcome) == [op |-> op, item |-> None, allow_nulls |-> TRUE, flags |-> NoFlags, outcome |-> outcome, errors0 |-> Len(errors), warnings0 |-> Len(warnings)]

\* Metadata.add_item
AddItem(item) ==
    /\ ~file.written /\ Len(metadata) < MaxItems
    /\ metadata' = Append(metadata, item)
    /\ last' = Did("add_item", "none")
    /\ UNCHANGED <<backend, dimensions, measures, data, errors, warnings, collection, file>>
    /\ UNCHANGED extractor_vars

\* Metadata.merge_items: add_item for each item of the other collection
MergeItems(other) ==
    /\ ~file.written /\ Len(metadata) + Len(other) <= MaxItems
    /\ metadata' = metadata \o other
    /\ last' = Did("merge_items", "none")
    /\ UNCHANGED <<backend, dimensions, measures, data, errors, warnings, collection, file>>
    /\ UNCHANGED extractor_vars

\* MarioBase.set_property, on the collection
SetProperty(name, value) ==
    /\ ~file.written
    /\ collection' = [collection EXCEPT !.properties = [k \in {name} |-> value] @@ collection.properties]
    /\ last' = Did("set_property", "none")
    /\ UNCHANGED <<backend, metadata, dimensions, measures, data, errors, warnings, file>>
    /\ UNCHANGED extractor_vars

\* Metadata.save
Save ==
    /\ ~file.written
    /\ file' = save
    /\ last' = Did("save", "none")
    /\ UNCHANGED <<backend, metadata, dimensions, measures, data, errors, warnings, collection>>
    /\ UNCHANGED extractor_vars

\* metadata_from_json, the collection then taking the place of the saved one
MetadataFromJson ==
    /\ file.written
    /\ collection' = [name |-> file.object["name"], properties |-> Without(file.object, {"name", "items"})]
    /\ metadata' = [i \in 1..Len(file.items) |-> item_from_json(file.items[i])]
    /\ last' = Did("metadata_from_json", "none")
    /\ UNCHANGED <<backend, dimensions, measures, data, errors, warnings, file>>
    /\ UNCHANGED extractor_vars

\* DatasetBuilder.validate_metadata: get_metadata returns None for a name it
\* does not have and raises nothing, so not_included stays empty
validate_metadata ==
    LET not_included == SelectSeq(items, LAMBDA field : FALSE)
    IN  IF Len(not_included) > 0 THEN "False" ELSE "True"

ValidateMetadata ==
    /\ last' = Did("validate_metadata", validate_metadata)
    /\ UNCHANGED <<backend, metadata, dimensions, measures, data, errors, warnings, collection, file>>
    /\ UNCHANGED extractor_vars

ItemChoices ==
    {[name |-> "A", description |-> "", properties |-> NoProperties],
     [name |-> "A", description |-> "first", properties |-> [k \in {"domain"} |-> "[1, 2]"]],
     [name |-> "B", description |-> "", properties |-> [k \in {"range"} |-> "(1, 2)"]],
     [name |-> "B", description |-> "second", properties |-> [k \in {"description"} |-> "note"]],
     [name |-> "C", description |-> "", properties |-> [k \in {"custom", "formula"} |-> "[A]"]]}

NoData == [columns |-> <<>>, dtypes |-> <<>>, rows |-> <<>>]

InitMetadata ==
    /\ NoExtractor
    /\ collection \in {[name |-> n, properties |-> NoProperties] : n \in {"Metadata", "Catalogue"}}
    /\ file = NoFile
    /\ backend = "DataFrame"
    /\ metadata = <<>>
    /\ dimensions = <<"A">>
    /\ measures = <<"B">>
    /\ data = NoData
    /\ errors = <<>>
    /\ warnings = <<>>
    /\ last = [op |-> "__init__", item |-> None, allow_nulls |-> TRUE, flags |-> NoFlags, outcome |-> "none", errors0 |-> 0, warnings0 |-> 0]

NextMetadata ==
    \/ \E item \in ItemChoices : AddItem(item)
    \/ \E other \in SeqsUpTo(ItemChoices, MaxItems) \ {<<>>} : MergeItems(other)
    \/ \E name \in {"source", "name"} : SetProperty(name, "census")
    \/ Save
    \/ MetadataFromJson
    \/ ValidateMetadata

SpecMetadata == InitMetadata /\ [][NextMetadata]_vars

----------------------------------------------------------------------------
(* Data extractors (mario/data_extractor.py).  Here data is the            *)
(* extractor's _data, a frame once extractor.loaded, and source is what    *)
(* its Configuration points at: a csv file for a DataExtractor, the hyper  *)
(* file of a HyperFile, the view the queries of a StreamingDataExtractor   *)
(* or a PartitioningExtractor run against.  A streaming call takes one     *)
(* step for each pass through a line of its loops, validate_data one step  *)
(* for get_data_frame and one for the validator it then makes, and no      *)
(* other call starts before the one in progress has returned or raised.    *)

\* the most rows a streaming call is told to read at a time
MaxChunk == 2

\* the calls that open a connection are unbounded in the code; the model
\* stops making them at MaxConnections open connections
MaxConnections == 1

\* chunk_size when the caller gives none
DefaultChunkSize == 100000

Smaller(a, b) == IF a <= b THEN a ELSE b

\* bool(value) of a property that may not be set
Truthy(item, name) == HasProperty(item, name) /\ item[name] # ""

\* a call on the extractor, how it ended and the value it returned, if any
Returned(op, argument, outcome, value) == [op |-> op, item |-> argument, allow_nulls |-> TRUE, flags |-> NoFlags, outcome |-> outcome, errors0 |-> 0, warnings0 |-> 0, value |-> value]

\* no call in progress, and none made yet
Idle == [pc |-> "idle", op |-> None, loop |-> FALSE, validate |-> FALSE, allow_nulls |-> TRUE, minimise |-> FALSE, chunk_size |-> DefaultChunkSize, include_row_numbers |-> FALSE, values |-> <<>>, cursor |-> <<>>, fresh |-> FALSE, df |-> [columns |-> <<>>, dtypes |-> <<>>, rows |-> <<>>], mode |-> "w", header |-> TRUE, row_counter |-> 0, offset |-> 0]

RECURSIVE Labels(_, _)
\* DataFrame.__getitem__ with a list of labels: for each label in turn,
\* every column of the frame that carries it
Labels(frame, columns) == IF columns = <<>> THEN <<>> ELSE SelectSeq(frame.columns, LAMBDA c : c = Head(columns)) \o Labels(frame, Tail(columns))

Select(frame, columns) == [columns |-> Labels(frame, columns), dtypes |-> [c \in SeqToSet(columns) |-> frame.dtypes[c]], rows |-> [i \in 1..Len(frame.rows) |-> [c \in SeqToSet(columns) |-> frame.rows[i][c]]]]

\* DataExtractor.__minimise_data__, the list it builds: the column of each
\* item that has a Metadata Item without a (truthy) formula
columns_to_keep ==
    LET kept == SelectSeq(items, LAMBDA item : get_metadata(item) # 0 /\ ~Truthy(metadata[get_metadata(item)], "formula"))
    IN  [i \in 1..Len(kept) |-> get_column_name(metadata[get_metadata(kept[i])])]

\* DataExtractor.__minimise_data__ on a frame: the frame it leaves in _data,
\* or the KeyError of a label the frame does not have
minimise_data(frame) ==
    IF SeqToSet(columns_to_keep) \subseteq SeqToSet(frame.columns)
    THEN [exc |-> "none", frame |-> Select(frame, columns_to_keep)]
    ELSE [exc |-> "KeyError", frame |-> frame]

\* HyperFile.__minimise_data__ with drop_columns_from_hyper: the table keeps,
\* in its own order, the columns named like an item of the specification
drop_columns_from_hyper(table) == Select(table, SelectSeq(table.columns, LAMBDA c : c \in SeqToSet(items)))

\* DataExtractor.__get_measure__: the measure asked for, or the first one
get_measure(measure) ==
    IF measure = None
    THEN [exc |-> "none", measure |-> IF Len(measures) > 0 THEN measures[1] ELSE None]
    ELSE [exc |-> IF measure \notin SeqToSet(measures) THEN "ValueError" ELSE "none", measure |-> measure]

\* the non-null cells of a column
Known(rows, column) == SelectSeq([i \in 1..Len(rows) |-> rows[i][column]], LAMBDA x : x # NULL)

\* SELECT SUM(column): nothing when there is no value to add
SqlSum(rows, column) == IF Known(rows, column) = <<>> THEN <<>> ELSE <<Sum(Known(rows, column))>>

\* the query a query builder makes of a specification's constraints: a
\* ViewBasedQueryBuilder selects the whole view, a SubsetQueryBuilder the
\* rows whose constrained columns hold an allowed value
create_query(specification) ==
    [of |-> specification, where |-> IF extractor.query_builder = "ViewBasedQueryBuilder" THEN <<>> ELSE specification]

\* the rows a query returns
Execute(query) ==
    SelectSeq(source.rows, LAMBDA row : \A k \in 1..Len(query.where) : row[query.where[k].item] \in SeqToSet(query.where[k].allowed_values))

\* PartitioningExtractor.__get_partition_values__: the allowed values of the
\* first constraint on the partition column; None when there is none
HasPartition == \E k \in 1..Len(constraints) : constraints[k].item = extractor.partition_column

get_partition_values == constraints[SetMin({k \in 1..Len(constraints) : constraints[k].item = extractor.partition_column})].allowed_values

\* a query for a partition value that leaves the constraint as it is
build_query_using_partition_Whole(partition_value) == create_query(constraints)

\* PartitioningExtractor.__build_query_using_partition__
build_query_using_partition(partition_value) ==
    create_query([k \in 1..Len(constraints) |-> IF constraints[k].item = extractor.partition_column THEN [constraints[k] EXCEPT !.allowed_values = <<partition_value>>] ELSE constraints[k]])

\* what no extractor call changes
Configured == UNCHANGED <<backend, metadata, dimensions, measures, errors, warnings, collection, file, constraints, folders>>

Streams == extractor.kind \in {"StreamingDataExtractor", "PartitioningExtractor"}

\* the frame in _data once get_data_frame has loaded it
Loaded == IF extractor.loaded THEN data ELSE source

\* a call that loads whether or not _data is set
Loads_OnEveryCall == extractor.loads + 1

\* the calls of __load__ so far, after "if self._data is None:
\* self.__load__()"
Loads == IF extractor.loaded THEN extractor.loads ELSE extractor.loads + 1

\* the minimise argument as the call is recorded
Keyword(minimise) == IF minimise THEN "minimise=True" ELSE "minimise=False"

\* get_data_frame of DataExtractor, HyperFile, StreamingDataExtractor and
\* PartitioningExtractor
GetDataFrame(minimise) ==
    /\ stream.pc = "idle"
    /\ Configured
    /\ UNCHANGED <<stream, connections, queries, output>>
    /\ CASE extractor.kind = "PartitioningExtractor" ->
                /\ last' = Returned("get_data_frame", Keyword(minimise), "NotImplementedError", <<>>)
                /\ UNCHANGED <<data, extractor, source>>
         [] extractor.kind = "StreamingDataExtractor" /\ ~extractor.loaded ->
                /\ last' = Returned("get_data_frame", Keyword(minimise), "NotImplementedError: Dataframe is not available when using a streaming extractor", <<>>)
                /\ UNCHANGED <<data, extractor, source>>
         [] extractor.kind = "HyperFile" ->
                /\ data' = Loaded
                /\ extractor' = [extractor EXCEPT !.loaded = TRUE, !.loads = Loads]
                /\ source' = IF minimise THEN drop_columns_from_hyper(source) ELSE source
                /\ last' = Returned("get_data_frame", Keyword(minimise), "none", <<>>)
         [] OTHER ->
                /\ data' = IF minimise THEN minimise_data(Loaded).frame ELSE Loaded
                /\ extractor' = [extractor EXCEPT !.loaded = TRUE, !.loads = Loads]
                /\ last' = Returned("get_data_frame", Keyword(minimise), IF minimise THEN minimise_data(Loaded).exc ELSE "none", <<>>)
                /\ UNCHANGED source

\* get_total of DataExtractor, HyperFile, StreamingDataExtractor and
\* PartitioningExtractor
GetTotal(measure) ==
    /\ stream.pc = "idle"
    /\ Configured
    /\ UNCHANGED <<stream, output, source>>
    /\ CASE extractor.kind = "PartitioningExtractor" ->
                /\ last' = Returned("get_total", measure, "NotImplementedError", <<>>)
                /\ UNCHANGED <<data, extractor, connections, queries>>
         [] extractor.kind = "HyperFile" ->
                /\ last' = IF measure = None THEN Returned("get_total", measure, "none", <<Len(source.rows)>>)
                           ELSE IF measure \notin SeqToSet(source.columns) THEN Returned("get_total", measure, "HyperException", <<>>)
                           ELSE Returned("get_total", measure, "none", SqlSum(source.rows, measure))
                /\ UNCHANGED <<data, extractor, connections, queries>>
         [] extractor.kind = "StreamingDataExtractor" ->
                LET chosen == get_measure(measure)
                IN  IF chosen.exc # "none"
                    THEN /\ last' = Returned("get_total", measure, chosen.exc, <<>>)
                         /\ UNCHANGED <<data, extractor, connections, queries>>
                    ELSE /\ connections < MaxConnections
                         /\ connections' = connections + 1
                         /\ queries' = <<[of |-> constraints, total |-> chosen.measure]>>
                         /\ last' = IF chosen.measure = None
                                    THEN (IF extractor.query_builder = "ViewBasedQueryBuilder"
                                          THEN Returned("get_total", measure, "none", <<Len(source.rows)>>)
                                          ELSE Returned("get_total", measure, "DatabaseError", <<>>))
                                    ELSE IF chosen.measure \notin SeqToSet(source.columns) THEN Returned("get_total", measure, "DatabaseError", <<>>)
                                    ELSE Returned("get_total", measure, "none", SqlSum(Execute(create_query(constraints)), chosen.measure))
                         /\ UNCHANGED <<data, extractor>>
         [] OTHER ->
                LET df == minimise_data(Loaded)
                    chosen == get_measure(measure)
                IN  /\ data' = df.frame
                    /\ extractor' = [extractor EXCEPT !.loaded = TRUE, !.loads = Loads]
                    /\ last' = IF df.exc # "none" THEN Returned("get_total", measure, df.exc, <<>>)
                               ELSE IF chosen.exc # "none" THEN Returned("get_total", measure, chosen.exc, <<>>)
                               ELSE IF chosen.measure = None THEN Returned("get_total", measure, "none", <<Len(df.frame.rows)>>)
                               ELSE IF chosen.measure \notin SeqToSet(df.frame.columns) THEN Returned("get_total", measure, "KeyError", <<>>)
                               ELSE Returned("get_total", measure, "none", <<Sum(Known(df.frame.rows, chosen.measure))>>)
                    /\ UNCHANGED <<connections, queries>>

\* the validation DataExtractor.validate_data runs: a DataFrameValidator of
\* its own over the frame get_data_frame returned
validator == validate_data(RunState(<<>>, <<>>), stream.allow_nulls, FALSE, FALSE, None)

\* the locals of a call are gone when it is left: what is kept is which
\* call it was
Left == [Idle EXCEPT !.op = stream.op, !.validate = stream.validate, !.allow_nulls = stream.allow_nulls, !.minimise = stream.minimise, !.chunk_size = stream.chunk_size, !.include_row_numbers = stream.include_row_numbers]

\* the call in progress raises: its loops are left, the exception reaches
\* the caller
StreamRaises(exception) ==
    /\ stream' = Left
    /\ last' = Returned(stream.op, None, exception, <<>>)

\* the call in progress returns
StreamReturns ==
    /\ stream' = Left
    /\ last' = Returned(stream.op, None, "none", <<>>)

\* validate_data of DataExtractor, of StreamingDataExtractor once _data is
\* set, and of PartitioningExtractor, up to the frame get_data_frame gives
\* the validator
ExtractorValidateData(allow_nulls) ==
    /\ stream.pc = "idle"
    /\ extractor.kind \in {"DataExtractor", "PartitioningExtractor"} \/ (extractor.kind = "StreamingDataExtractor" /\ extractor.loaded)
    /\ Configured
    /\ UNCHANGED <<source, connections, queries, output>>
    /\ IF extractor.kind = "PartitioningExtractor"
       THEN /\ last' = Returned("validate_data", None, "NotImplementedError", <<>>)
            /\ UNCHANGED <<data, extractor, stream>>
       ELSE /\ data' = minimise_data(Loaded).frame
            /\ extractor' = [extractor EXCEPT !.loaded = TRUE, !.loads = Loads]
            /\ IF minimise_data(Loaded).exc # "none"
               THEN /\ last' = Returned("validate_data", None, minimise_data(Loaded).exc, <<>>)
                    /\ stream' = [Idle EXCEPT !.op = "validate_data", !.allow_nulls = allow_nulls]
               ELSE /\ stream' = [Idle EXCEPT !.pc = "check", !.op = "validate_data", !.allow_nulls = allow_nulls]
                    /\ UNCHANGED last

\* a loop that writes the chunk in hand before it lets the exception of its
\* validation through
ValidatorRuns_AfterWriting ==
    /\ stream.pc = "check"
    /\ Configured
    /\ UNCHANGED <<data, extractor, source, connections, queries>>
    /\ \E v \in {validator} :
          IF v.exc # "none" THEN StreamRaises(v.exc) /\ output' = output \o stream.df.rows
          ELSE /\ UNCHANGED output
               /\ IF stream.loop THEN stream' = [stream EXCEPT !.pc = "write"] /\ UNCHANGED last
                  ELSE StreamReturns

\* validator.validate_data(allow_nulls) over the frame in _data: what it
\* raises leaves the call; otherwise validate_data returns, to the loop of
\* the streaming call when that made it
ValidatorRuns ==
    /\ stream.pc = "check"
    /\ Configured
    /\ UNCHANGED <<data, extractor, source, connections, queries, output>>
    /\ \E v \in {validator} :
          IF v.exc # "none" THEN StreamRaises(v.exc)
          ELSE IF stream.loop THEN stream' = [stream EXCEPT !.pc = "write"] /\ UNCHANGED last
          ELSE StreamReturns

\* stream_sql_to_csv and stream_sql_to_hyper of StreamingDataExtractor and
\* of PartitioningExtractor, up to their loop; and validate_data of a
\* StreamingDataExtractor without _data, which is stream_sql_to_hyper with
\* validate=True
StreamStart(op, validate, allow_nulls, minimise, chunk_size, include_row_numbers) ==
    /\ stream.pc = "idle" /\ Streams /\ connections < MaxConnections
    /\ op = "validate_data" => extractor.kind = "StreamingDataExtractor" /\ ~extractor.loaded
    /\ Configured
    /\ UNCHANGED <<data, extractor, source>>
    /\ connections' = connections + 1
    /\ output' = <<>>
    /\ include_row_numbers => extractor.kind = "PartitioningExtractor"
    /\ LET called == [Idle EXCEPT !.op = op, !.loop = TRUE, !.validate = validate, !.allow_nulls = allow_nulls, !.minimise = minimise, !.chunk_size = chunk_size, !.include_row_numbers = include_row_numbers]
       IN  IF extractor.kind = "StreamingDataExtractor"
           THEN /\ queries' = <<create_query(constraints)>>
                /\ stream' = [called EXCEPT !.pc = "read", !.cursor = Execute(create_query(constraints)), !.fresh = TRUE]
                /\ UNCHANGED last
           ELSE /\ queries' = <<>>
                /\ IF HasPartition
                   THEN /\ stream' = [called EXCEPT !.pc = "partition", !.values = get_partition_values]
                        /\ UNCHANGED last
                   ELSE /\ stream' = [called EXCEPT !.loop = FALSE]
                        /\ last' = Returned(op, None, "TypeError", <<>>)

\* PartitioningExtractor: for partition_value in the partition values, the
\* query of the value is built and executed; after the last one the call
\* returns
StreamPartition ==
    /\ stream.pc = "partition"
    /\ Configured
    /\ UNCHANGED <<data, extractor, source, connections, output>>
    /\ IF stream.values = <<>>
       THEN StreamReturns /\ UNCHANGED queries
       ELSE /\ queries' = Append(queries, build_query_using_partition(Head(stream.values)))
            /\ stream' = [stream EXCEPT !.pc = "read", !.values = Tail(@), !.cursor = Execute(build_query_using_partition(Head(stream.values))), !.fresh = TRUE]
            /\ UNCHANGED last

\* for df in pd.read_sql(..., chunksize=chunk_size): the next chunk_size
\* rows of the result, or one empty frame when the result has no row at
\* all; self._data = df when validating or minimising
StreamRead ==
    /\ stream.pc = "read" /\ (stream.cursor # <<>> \/ stream.fresh)
    /\ Configured
    /\ UNCHANGED <<source, connections, queries, output, last>>
    /\ LET n == Smaller(stream.chunk_size, Len(stream.cursor))
           df == [columns |-> source.columns, dtypes |-> source.dtypes, rows |-> SubSeq(stream.cursor, 1, n)]
       IN  /\ stream' = [stream EXCEPT !.pc = IF stream.validate THEN "validate" ELSE "write", !.cursor = SubSeq(@, n + 1, Len(@)), !.fresh = FALSE, !.df = df]
           /\ IF stream.validate \/ stream.minimise
              THEN data' = df /\ extractor' = [extractor EXCEPT !.loaded = TRUE]
              ELSE UNCHANGED <<data, extractor>>

\* the result of the query is exhausted: a StreamingDataExtractor returns,
\* a PartitioningExtractor goes on to its next partition value
StreamExhausted ==
    /\ stream.pc = "read" /\ stream.cursor = <<>> /\ ~stream.fresh
    /\ Configured
    /\ UNCHANGED <<data, extractor, source, connections, queries, output>>
    /\ IF extractor.kind = "StreamingDataExtractor"
       THEN StreamReturns
       ELSE stream' = [stream EXCEPT !.pc = "partition"] /\ UNCHANGED last

\* if validate: self.validate_data(allow_nulls=allow_nulls).  With _data
\* set this is DataExtractor.validate_data: get_data_frame, which a
\* PartitioningExtractor refuses and which otherwise minimises _data, for
\* the validator to run over that frame
StreamValidate ==
    /\ stream.pc = "validate"
    /\ Configured
    /\ UNCHANGED <<extractor, source, connections, queries, output>>
    /\ IF extractor.kind = "PartitioningExtractor"
       THEN StreamRaises("NotImplementedError") /\ UNCHANGED data
       ELSE IF minimise_data(data).exc # "none"
       THEN StreamRaises(minimise_data(data).exc) /\ UNCHANGED data
       ELSE /\ data' = minimise_data(data).frame
            /\ stream' = [stream EXCEPT !.pc = "check"]
            /\ UNCHANGED last

\* a numbering that starts every chunk at 0
with_row_numbers_PerChunk(frame, row_counter) ==
    [columns |-> IF "row_number" \in SeqToSet(frame.columns) THEN frame.columns ELSE Append(frame.columns, "row_number"),
     dtypes |-> [c \in SeqToSet(frame.columns) \cup {"row_number"} |-> IF c = "row_number" THEN "int64" ELSE frame.dtypes[c]],
     rows |-> [i \in 1..Len(frame.rows) |-> [c \in SeqToSet(frame.columns) \cup {"row_number"} |-> IF c = "row_number" THEN i - 1 ELSE frame.rows[i][c]]]]

\* df['row_number'] = range(row_counter, row_counter + len(df))
with_row_numbers(frame, row_counter) ==
    [columns |-> IF "row_number" \in SeqToSet(frame.columns) THEN frame.columns ELSE Append(frame.columns, "row_number"),
     dtypes |-> [c \in SeqToSet(frame.columns) \cup {"row_number"} |-> IF c = "row_number" THEN "int64" ELSE frame.dtypes[c]],
     rows |-> [i \in 1..Len(frame.rows) |-> [c \in SeqToSet(frame.columns) \cup {"row_number"} |-> IF c = "row_number" THEN row_counter + i - 1 ELSE frame.rows[i][c]]]]

\* the line of column names at the head of a delimited file
HeaderLine(columns) == [header |-> columns]

\* a write that puts the column names before the rows whatever it is told
to_csv_WithHeader(lines, frame, mode, header) ==
    (IF mode = "w" THEN <<>> ELSE lines) \o <<HeaderLine(frame.columns)>> \o frame.rows

\* DataFrame.to_csv(file_path, mode=mode, header=header): the lines of the
\* file afterwards
to_csv(lines, frame, mode, header) ==
    (IF mode = "w" THEN <<>> ELSE lines) \o (IF header THEN <<HeaderLine(frame.columns)>> ELSE <<>>) \o frame.rows

\* frame_to_hyper(df, table_mode='a'): the rows of the table afterwards
frame_to_hyper(table, frame) == table \o frame.rows

\* if minimise: self.__minimise_data__(); df = self._data.  Then the rows
\* of the chunk are numbered, if asked for, and the chunk is written to the
\* output file: to a delimited file with the header and mode of the moment,
\* which the first write switches to no header and append
StreamWrite ==
    /\ stream.pc = "write"
    /\ Configured
    /\ UNCHANGED <<extractor, source, connections, queries>>
    /\ IF stream.minimise /\ minimise_data(data).exc # "none"
       THEN StreamRaises(minimise_data(data).exc) /\ UNCHANGED <<data, output>>
       ELSE LET kept == IF stream.minimise THEN minimise_data(data).frame ELSE stream.df
                df == IF stream.include_row_numbers THEN with_row_numbers(kept, stream.row_counter) ELSE kept
                csv == stream.op = "stream_sql_to_csv"
            IN  /\ data' = IF stream.minimise THEN df ELSE data
                /\ output' = IF csv THEN to_csv(output, df, stream.mode, stream.header) ELSE frame_to_hyper(output, df)
                /\ stream' = [stream EXCEPT !.pc = "read", !.df = df,
                                            !.row_counter = IF stream.include_row_numbers THEN @ + Len(df.rows) ELSE @,
                                            !.header = IF csv THEN FALSE ELSE @,
                                            !.mode = IF csv THEN "a" ELSE @]
                /\ UNCHANGED last

\* DataExtractor.save_data_as_csv and save_data_as_hyper: the data is loaded
\* if it is not yet, minimised if asked for, and written
SaveData(op, minimise) ==
    /\ stream.pc = "idle" /\ extractor.kind = "DataExtractor"
    /\ Configured
    /\ UNCHANGED <<stream, source, connections, queries>>
    /\ extractor' = [extractor EXCEPT !.loaded = TRUE, !.loads = Loads]
    /\ IF minimise /\ minimise_data(Loaded).exc # "none"
       THEN /\ data' = Loaded
            /\ last' = Returned(op, Keyword(minimise), minimise_data(Loaded).exc, <<>>)
            /\ UNCHANGED output
       ELSE LET df == IF minimise THEN minimise_data(Loaded).frame ELSE Loaded
            IN  /\ data' = df
                /\ output' = IF op = "save_data_as_csv" THEN to_csv(<<>>, df, "w", TRUE) ELSE frame_to_hyper(<<>>, df)
                /\ last' = Returned(op, Keyword(minimise), "none", <<>>)

\* add_row_numbers_to_hyper: ROW_NUMBER() OVER() numbers the rows 1, 2, ...
\* in an order the query leaves open
add_row_numbers_to_hyper(table, numbering) ==
    [columns |-> Append(table.columns, "row_number"),
     dtypes |-> [c \in SeqToSet(table.columns) \cup {"row_number"} |-> IF c = "row_number" THEN "big_int" ELSE table.dtypes[c]],
     rows |-> [i \in 1..Len(table.rows) |-> [c \in SeqToSet(table.columns) \cup {"row_number"} |-> IF c = "row_number" THEN numbering[i] ELSE table.rows[i][c]]]]

\* ORDER BY row_number
ByRowNumber(rows) ==
    [i \in 1..Len(rows) |-> rows[CHOOSE k \in 1..Len(rows) : Cardinality({j \in 1..Len(rows) : rows[j].row_number < rows[k].row_number}) = i - 1]]

\* a query without ORDER BY: the rows come as the table holds them
frame_from_hyper_query_Unordered(table, columns, chunk_size, offset) ==
    LET chunk == SubSeq(table.rows, offset + 1, Smaller(offset + chunk_size, Len(table.rows)))
    IN  [columns |-> columns, dtypes |-> [c \in SeqToSet(columns) |-> table.dtypes[c]], rows |-> [i \in 1..Len(chunk) |-> [c \in SeqToSet(columns) |-> chunk[i][c]]]]

\* pantab.frame_from_hyper_query of
\* SELECT columns FROM table ORDER BY row_number LIMIT chunk_size OFFSET offset
frame_from_hyper_query(table, columns, chunk_size, offset) ==
    LET chunk == SubSeq(ByRowNumber(table.rows), offset + 1, Smaller(offset + chunk_size, Len(table.rows)))
    IN  [columns |-> columns, dtypes |-> [c \in SeqToSet(columns) |-> table.dtypes[c]], rows |-> [i \in 1..Len(chunk) |-> [c \in SeqToSet(columns) |-> chunk[i][c]]]]

\* HyperFile.save_data_as_csv up to its loop: the file is copied, the copy
\* is given row numbers unless it has them, the columns to write are those
\* of the file but row_number
HyperSaveStart(chunk_size) ==
    /\ stream.pc = "idle" /\ extractor.kind = "HyperFile"
    /\ Configured
    /\ UNCHANGED <<data, extractor, source, connections, queries, last>>
    /\ output' = <<>>
    /\ \E numbering \in Permutations(1..Len(source.rows)) :
          LET numbered == "row_number" \in SeqToSet(source.columns)
              temp_hyper == IF numbered THEN source ELSE add_row_numbers_to_hyper(source, numbering)
              columns == SelectSeq(source.columns, LAMBDA c : c # "row_number")
          IN  /\ numbered => numbering = [i \in 1..Len(source.rows) |-> i]
              /\ stream' = [Idle EXCEPT !.pc = "hyper_csv", !.op = "save_data_as_csv", !.loop = TRUE, !.chunk_size = chunk_size, !.values = columns, !.df = temp_hyper]

\* one turn of the loop of HyperFile.save_data_as_csv: the chunk at the
\* offset is read; an empty one ends the loop and the call, any other is
\* written and the offset moves on by chunk_size
HyperSaveChunk ==
    /\ stream.pc = "hyper_csv"
    /\ Configured
    /\ UNCHANGED <<data, extractor, source, connections, queries>>
    /\ LET df_chunk == frame_from_hyper_query(stream.df, stream.values, stream.chunk_size, stream.offset)
       IN  IF df_chunk.rows = <<>>
           THEN StreamReturns /\ UNCHANGED output
           ELSE /\ output' = to_csv(output, df_chunk, stream.mode, stream.header)
                /\ stream' = [stream EXCEPT !.offset = @ + stream.chunk_size, !.header = FALSE, !.mode = "a"]
                /\ UNCHANGED last

\* the file or view the extractors read: A is also held as X, in which one
\* cell is null, and U is a column no item names
Wide == Table(<<"A", "X", "B", "C", "U">>, [A |-> <<1, 2, 1>>, X |-> <<1, NULL, 2>>, B |-> <<1, 2, 3>>, C |-> <<2, 2, 2>>, U |-> <<3, 3, 3>>], [c \in {"A", "X", "B", "C", "U"} |-> "int64"])

\* the same without the columns X and C
Narrow == Select(Wide, <<"A", "B", "U">>)

\* every item plain; A stored as X and C calculated; A with a blank
\* formula and C without a Metadata Item
MetadataOfExtract ==
    {<<[name |-> "A"], [name |-> "B"], [name |-> "C"]>>,
     <<[name |-> "A", physical_column_name |-> "X"], [name |-> "B"], [name |-> "C", formula |-> "[B]*2"]>>,
     <<[name |-> "A", formula |-> ""], [name |-> "B"]>>}

Constraint(item, allowed_values) == [item |-> item, allowed_values |-> allowed_values]

ConstraintChoices == {<<>>, <<Constraint("A", <<1, 2>>)>>, <<Constraint("A", <<2, 1>>), Constraint("B", <<1, 2>>)>>}

\* the extractor classes, the streaming ones with either query builder
ExtractorChoices ==
    {[kind |-> k, loaded |-> FALSE, loads |-> 0, query_builder |-> None, partition_column |-> None] : k \in {"DataExtractor", "HyperFile"}}
    \cup {[kind |-> "StreamingDataExtractor", loaded |-> FALSE, loads |-> 0, query_builder |-> q, partition_column |-> None] : q \in {"ViewBasedQueryBuilder", "SubsetQueryBuilder"}}
    \cup {[kind |-> "PartitioningExtractor", loaded |-> FALSE, loads |-> 0, query_builder |-> q, partition_column |-> "A"] : q \in {"ViewBasedQueryBuilder", "SubsetQueryBuilder"}}

InitExtractor ==
    /\ DefaultCollection
    /\ backend = "DataFrame"
    /\ metadata \in MetadataOfExtract
    /\ dimensions = <<"A">>
    /\ measures \in {<<>>, <<"B", "C">>}
    /\ data = [columns |-> <<>>, dtypes |-> <<>>, rows |-> <<>>]
    /\ errors = <<>>
    /\ warnings = <<>>
    /\ last = Returned("__init__", None, "none", <<>>)
    /\ extractor \in ExtractorChoices
    /\ source \in {Wide, Narrow}
    /\ constraints \in ConstraintChoices
    /\ stream = Idle
    /\ connections = 0
    /\ queries = <<>>
    /\ output = <<>>
    /\ folders = <<>>

NextExtractor ==
    \/ \E minimise \in BOOLEAN : GetDataFrame(minimise)
    \/ \E measure \in {None, "C", "U"} : GetTotal(measure)
    \/ \E allow_nulls \in BOOLEAN : ExtractorValidateData(allow_nulls)
    \/ \E op \in {"save_data_as_csv", "save_data_as_hyper"}, minimise \in BOOLEAN : SaveData(op, minimise)
    \/ \E op \in {"stream_sql_to_csv", "stream_sql_to_hyper"}, validate \in BOOLEAN, allow_nulls \in BOOLEAN, minimise \in BOOLEAN, chunk_size \in 1..MaxChunk, include_row_numbers \in BOOLEAN : (validate \/ allow_nulls) /\ ~(validate /\ include_row_numbers) /\ StreamStart(op, validate, allow_nulls, minimise, chunk_size, include_row_numbers)
    \/ \E allow_nulls \in BOOLEAN : StreamStart("validate_data", TRUE, allow_nulls, FALSE, DefaultChunkSize, FALSE)
    \/ StreamPartition
    \/ StreamRead
    \/ StreamExhausted
    \/ StreamValidate
    \/ ValidatorRuns
    \/ StreamWrite

SpecExtractor == InitExtractor /\ [][NextExtractor]_vars

----------------------------------------------------------------------------
(* A HyperFile saved as a delimited file *)

\* the tables have up to MaxTable rows
MaxTable == 3

RECURSIVE SeqsOf(_, _)
\* the sequences of n elements of S
SeqsOf(S, n) == IF n = 0 THEN {<<>>} ELSE {Append(s, x) : s \in SeqsOf(S, n - 1), x \in S}

\* tables of one column A, without row numbers or with the numbers 0 .. n-1
\* a numbered extract holds, the rows in any order
HyperTables ==
    UNION {{[columns |-> <<"A">>, dtypes |-> [c \in {"A"} |-> "big_int"], rows |-> [i \in 1..n |-> [c \in {"A"} |-> cells[i]]]] : cells \in SeqsOf(1..2, n)}
           \cup {[columns |-> cols, dtypes |-> [c \in {"A", "row_number"} |-> "big_int"], rows |-> [i \in 1..n |-> [A |-> cells[i], row_number |-> numbering[i] - 1]]] :
                     cells \in SeqsOf(1..2, n), numbering \in Permutations(1..n), cols \in {<<"A", "row_number">>, <<"row_number", "A">>}}
           : n \in 0..MaxTable}

InitHyperCsv ==
    /\ DefaultCollection
    /\ backend = "Hyper"
    /\ metadata = <<[name |-> "A"]>>
    /\ dimensions = <<"A">>
    /\ measures = <<>>
    /\ data = [columns |-> <<>>, dtypes |-> <<>>, rows |-> <<>>]
    /\ errors = <<>>
    /\ warnings = <<>>
    /\ last = Returned("__init__", None, "none", <<>>)
    /\ extractor = [kind |-> "HyperFile", loaded |-> FALSE, loads |-> 0, query_builder |-> None, partition_column |-> None]
    /\ source \in HyperTables
    /\ constraints = <<>>
    /\ stream = Idle
    /\ connections = 0
    /\ queries = <<>>
    /\ output = <<>>
    /\ folders = <<>>

NextHyperCsv ==
    \/ \E chunk_size \in 1..MaxChunk \cup {DefaultChunkSize} : HyperSaveStart(chunk_size)
    \/ HyperSaveChunk

\* the call made is run to its end: the loop is not abandoned half-way
SpecHyperCsv == InitHyperCsv /\ [][NextHyperCsv]_vars /\ WF_vars(HyperSaveChunk)

----------------------------------------------------------------------------
(* DatasetSplitter: the checks of its constructor on the two folders *)

\* directories are nested at most MaxDepth deep below a folder
MaxDepth == 2

Paths == {"in", "out"}

\* no folder at the path
Absent == [exists |-> FALSE, depth |-> 0, files |-> FALSE]

\* the folder os.makedirs creates
Empty == [exists |-> TRUE, depth |-> 0, files |-> FALSE]

\* a folder: whether it holds files, and how deep directories are nested
\* below it (0: no subdirectory, 1: subdirectories that have none, ...)
Trees == {Absent} \cup [exists : {TRUE}, depth : 0..MaxDepth, files : BOOLEAN]

\* any(os.path.relpath(root, path).count(os.sep) > 0 for root, dirs, _ in
\* os.walk(path)): the walk visits the folder as '.', its subdirectories
\* as 'name', and theirs as 'name/name', the first with a separator
walk_finds_separator(tree) == tree.depth >= 2

\* next(os.walk(path))[1]: the subdirectories of the folder itself
subdirectories(tree) == tree.depth >= 1

\* how DatasetSplitter.__init__ ends: the first check that fails raises
splitter_outcome(source_path, output_path, use_excel_builder, template) ==
    IF use_excel_builder /\ template \in {None, "missing.xlsx"} THEN "ValueError: You must specify a valid template file to use the Excel Builder"
    ELSE IF ~folders[source_path].exists THEN "FileNotFoundError: Source folder doesn't exist."
    ELSE IF source_path = output_path THEN "ValueError: Source and output folders can't be the same."
    ELSE IF folders[output_path].exists /\ walk_finds_separator(folders[output_path]) THEN "ValueError: Output folder contains subdirectories"
    ELSE IF subdirectories(folders[source_path]) THEN "ValueError: Source folder contains subdirectories"
    ELSE "none"

\* DatasetSplitter.__init__: when every check has passed the output folder
\* is removed if it exists, and created
DatasetSplitter(source_path, output_path, use_excel_builder, template) ==
    /\ UNCHANGED <<backend, metadata, dimensions, measures, data, errors, warnings, collection, file, extractor, source, constraints, stream, connections, queries, output>>
    /\ last' = Returned("DatasetSplitter", [source_path |-> source_path, output_path |-> output_path, use_excel_builder |-> use_excel_builder, template |-> template], splitter_outcome(source_path, output_path, use_excel_builder, template), <<>>)
    /\ folders' = IF splitter_outcome(source_path, output_path, use_excel_builder, template) = "none" THEN [folders EXCEPT ![output_path] = Empty] ELSE folders

InitSplitter ==
    /\ DefaultCollection
    /\ backend = "DataFrame"
    /\ metadata = <<>>
    /\ dimensions = <<>>
    /\ measures = <<>>
    /\ data = [columns |-> <<>>, dtypes |-> <<>>, rows |-> <<>>]
    /\ errors = <<>>
    /\ warnings = <<>>
    /\ last = Returned("none", [source_path |-> None, output_path |-> None, use_excel_builder |-> FALSE, template |-> None], "none", <<>>)
    /\ extractor = [kind |-> "none", loaded |-> FALSE]
    /\ source = [columns |-> <<>>, dtypes |-> <<>>, rows |-> <<>>]
    /\ constraints = <<>>
    /\ stream = [pc |-> "idle"]
    /\ connections = 0
    /\ queries = <<>>
    /\ output = <<>>
    /\ folders \in [Paths -> Trees]

NextSplitter ==
    \E source_path \in Paths, output_path \in Paths, use_excel_builder \in BOOLEAN, template \in {None, "missing.xlsx", "template.xlsx"} :
        DatasetSplitter(source_path, output_path, use_excel_builder, template)

SpecSplitter == InitSplitter /\ [][NextSplitter]_vars

----------------------------------------------------------------------------
(* What the last call added to the lists *)

ValidationFailure == "ValueError: Data validation failed"

NewErrors == SubSeq(errors, last.errors0 + 1, Len(errors))

NewWarnings == SubSeq(warnings, last.warnings0 + 1, Len(warnings))

\* the last call started from a validator straight out of __init__
OnFresh == last.errors0 = 0 /\ last.warnings0 = 0

\* the last call ran every requested check and reached the end of validate_data
RanToTheEnd == last.outcome \in {"none", ValidationFailure}

ItemNamed(name) == metadata[get_metadata(name)]

----------------------------------------------------------------------------
(* C1 *)

\* C1: a validate_data call that ran all its requested checks raised the
\* validation failure if and only if the errors list is then non-empty, and
\* returned True when it is empty; warnings alone never make it raise.
C1_RaisesIffErrors ==
    last.op = "validate_data" =>
        /\ last.outcome = ValidationFailure => errors # <<>>
        /\ last.outcome = "none" => errors = <<>>
        /\ RanToTheEnd /\ errors # <<>> => last.outcome = ValidationFailure

C1_Witness == last.op = "validate_data" /\ last.outcome = ValidationFailure /\ errors # <<>> /\ warnings # <<>>

C1_WarningsOnly == last.op = "validate_data" /\ last.outcome = "none" /\ errors = <<>> /\ warnings # <<>>

----------------------------------------------------------------------------
(* C2 *)

RECURSIVE ErrorsOfEachItem(_, _)
\* what validate_data_item records as errors for each of the items, each
\* taken alone on empty lists, one after the other
ErrorsOfEachItem(names, allow_nulls) == IF names = <<>> THEN <<>> ELSE validate_data_item(RunState(<<>>, <<>>), Head(names), allow_nulls).errors \o ErrorsOfEachItem(Tail(names), allow_nulls)

IsFieldError(msg) == msg[1] # "hierarchy"

\* C2: when validate_data raises the validation failure, the errors it added
\* are the errors of every item of the specification, each as the item alone
\* produces them: an item's error never keeps a later item from being checked.
C2_AllItemsChecked ==
    last.op = "validate_data" /\ last.outcome = ValidationFailure =>
        SelectSeq(NewErrors, IsFieldError) = ErrorsOfEachItem(items, last.allow_nulls)

\* nulls on A, a value of B outside its domain and a value of C above its range
C2_Witness ==
    /\ last.op = "validate_data" /\ last.outcome = ValidationFailure /\ OnFresh
    /\ Count(errors, <<"nulls", "A">>) = 1
    /\ Count(errors, <<"domain", "B", 3>>) = 1
    /\ Count(errors, <<"greater", "C", 3, 2>>) = 1

----------------------------------------------------------------------------
(* C3 *)

\* C3: validate_data(allow_nulls=True) called a second time on the same
\* validator, the data unchanged, leaves the errors and warnings lists as the
\* first call left them.
C3_Idempotent ==
    [][(last.op = "validate_data" /\ last.allow_nulls /\ last.flags = NoFlags /\ OnFresh /\ ValidateData(TRUE, FALSE, FALSE, None))
        => (errors' = errors /\ warnings' = warnings)]_vars

----------------------------------------------------------------------------
(* C4 *)

HasNull(column) == \E i \in 1..Len(data.rows) : data.rows[i][column] = NULL

\* the item is not calculated, passes the presence check, and the column it
\* resolves to holds a null
PresentWithNulls(name) ==
    /\ get_metadata(name) # 0
    /\ ~HasProperty(ItemNamed(name), "formula")
    /\ check_column_present(RunState(<<>>, <<>>), ItemNamed(name)).result
    /\ HasColumn(get_column_name(ItemNamed(name)))
    /\ HasNull(get_column_name(ItemNamed(name)))

\* C4: one validate_data call on a fresh validator records "'<name>' contains
\* NULLs" exactly once for every present, non-calculated item whose column
\* holds a null: as an error, and the call raises, when allow_nulls is False;
\* as a warning and not as an error when allow_nulls is True.
C4_NullsRecordedOnce ==
    last.op = "validate_data" /\ OnFresh /\ RanToTheEnd =>
        \A k \in 1..Len(items) : PresentWithNulls(items[k]) =>
            IF last.allow_nulls
            THEN Count(warnings, <<"nulls", items[k]>>) = 1 /\ Count(errors, <<"nulls", items[k]>>) = 0
            ELSE Count(errors, <<"nulls", items[k]>>) = 1 /\ Count(warnings, <<"nulls", items[k]>>) = 0 /\ last.outcome = ValidationFailure

\* the same for the validators that read a null as None
C4_NullsAsNone == backend # "Sql" => C4_NullsRecordedOnce

----------------------------------------------------------------------------
(* C5 *)

Occurs(column, x) == \E i \in 1..Len(data.rows) : data.rows[i][column] = x

\* the last call was the named check on an item that declares the property
\* and whose column is in the data
Checked(op, property) ==
    /\ last.op = op
    /\ HasProperty(ItemNamed(last.item), property)
    /\ HasColumn(get_column_name(ItemNamed(last.item)))

\* C5: check_domain on an item with a domain records one error for each
\* value that some row holds and the domain does not, however many rows hold
\* it, one warning for each domain value that no row holds, and nothing for
\* a value that is in both.
C5_DomainMessages ==
    Checked("check_domain", "domain") =>
        LET item == ItemNamed(last.item)
            column == get_column_name(item)
            domain == SeqToSet(item.domain)
        IN  /\ \A x \in Cells : Count(NewErrors, <<"domain", item.name, Read(column, x)>>) = (IF Occurs(column, x) /\ x \notin domain THEN 1 ELSE 0)
            /\ \A x \in Cells : Count(NewWarnings, <<"absent", item.name, x>>) = (IF x \in domain /\ ~Occurs(column, x) THEN 1 ELSE 0)
            /\ Len(NewErrors) = Cardinality({x \in Cells : Occurs(column, x) /\ x \notin domain})
            /\ Len(NewWarnings) = Cardinality({x \in domain : ~Occurs(column, x)})

\* the value 3 is outside the domain in two rows and is reported once, and
\* the domain value 2 is nowhere in the data
C5_Witness ==
    /\ Checked("check_domain", "domain")
    /\ ItemNamed(last.item).domain = <<1, 2>>
    /\ Len(data.rows) = 2 /\ \A i \in 1..2 : data.rows[i]["A"] = 3
    /\ NewErrors = <<<<"domain", "A", 3>>>>
    /\ Len(NewWarnings) = 2

----------------------------------------------------------------------------
(* C6 *)

IsLess(msg) == msg[1] = "less"

IsGreater(msg) == msg[1] = "greater"

\* C6: check_range on an item with a range [lo, hi] records one "less than"
\* error exactly when a value of the column is below lo, one "greater than"
\* error exactly when a value is above hi, each whether or not the other is
\* recorded, and nothing else.
C6_RangeErrors ==
    Checked("check_range", "range") =>
        LET item == ItemNamed(last.item)
            column == get_column_name(item)
            below == \E x \in NonNull(column) : x < item.range[1]
            above == \E x \in NonNull(column) : x > item.range[2]
        IN  /\ Len(SelectSeq(NewErrors, IsLess)) = (IF below THEN 1 ELSE 0)
            /\ Len(SelectSeq(NewErrors, IsGreater)) = (IF above THEN 1 ELSE 0)
            /\ below => Count(NewErrors, <<"less", item.name, SetMin(NonNull(column)), item.range[1]>>) = 1
            /\ above => Count(NewErrors, <<"greater", item.name, SetMax(NonNull(column)), item.range[2]>>) = 1
            /\ Len(NewErrors) = (IF below THEN 1 ELSE 0) + (IF above THEN 1 ELSE 0)
            /\ NewWarnings = <<>>

\* both errors in one call: 1 and 3 against the range [2, 2]
C6_Witness ==
    /\ Checked("check_range", "range")
    /\ ItemNamed(last.item).range = <<2, 2>>
    /\ NewErrors = <<<<"less", "A", 1, 2>>, <<"greater", "A", 3, 2>>>>

----------------------------------------------------------------------------
(* C7 *)

\* the item is not calculated and the column it resolves to is not in the data
ColumnAbsent(name) ==
    /\ get_metadata(name) # 0
    /\ ~HasProperty(ItemNamed(name), "formula")
    /\ ~HasColumn(get_column_name(ItemNamed(name)))

\* C7: for a non-calculated item whose column is absent from the data,
\* validate_data_item records the one error "'<item>' in specification is
\* missing from dataset" and nothing else.
C7_MissingColumnOnly ==
    last.op = "validate_data_item" /\ ColumnAbsent(last.item) =>
        NewErrors = <<<<"missing", last.item>>>> /\ NewWarnings = <<>> /\ last.outcome = "none"

\* the same for the two validators whose presence check looks up the
\* resolved column
C7_OffSql == backend # "Sql" => C7_MissingColumnOnly

----------------------------------------------------------------------------
(* C8 *)

\* C8: for an item with a formula property validate_data_item adds nothing to
\* errors or warnings and returns normally, whatever the backend, whether or
\* not the column exists, and whatever else the item declares.
C8_CalculatedSkipsAll ==
    last.op = "validate_data_item" /\ get_metadata(last.item) # 0 /\ HasProperty(ItemNamed(last.item), "formula") =>
        NewErrors = <<>> /\ NewWarnings = <<>> /\ last.outcome = "none"

\* a calculated item that declares a domain, a range, a pattern and an unknown
\* data type, over a column with nulls and values outside the rules
C8_Witness ==
    /\ last.op = "validate_data_item" /\ last.item = "B"
    /\ HasProperty(ItemNamed("B"), "formula") /\ HasProperty(ItemNamed("B"), "domain") /\ HasProperty(ItemNamed("B"), "datatype")
    /\ HasNull("B")
    /\ backend = "Sql"

----------------------------------------------------------------------------
(* C9 *)

\* the levels of H, and the rows of the data as <<higher levels, value>>
LevelsOfH == get_hierarchy("H")

HigherLevels(i) == [k \in 1..(Len(LevelsOfH) - 1) |-> data.rows[i][LevelsOfH[k]]]

\* the combinations of higher-level values, none of them null, that some row
\* holds together with the last-level value x
Combinations(x) == {HigherLevels(i) : i \in {j \in 1..Len(data.rows) : data.rows[j][LevelsOfH[Len(LevelsOfH)]] = x /\ NULL \notin SeqToSet(HigherLevels(j))}}

\* the positions in NewErrors of the hierarchy errors about x
HierarchyErrors(x) == {i \in 1..Len(NewErrors) : NewErrors[i][1] = "hierarchy" /\ NewErrors[i][2] = x}

First(S) == CHOOSE c \in S : \A d \in S \ {c} : LexLess(c, d)

\* C9 as stated: check_hierarchies records exactly one error for a last-level
\* value under more than one combination of higher-level values, however
\* many combinations there are, and none for a value under one combination.
C9_OneErrorPerValue ==
    last.op = "check_hierarchies" /\ last.outcome = "none" =>
        \A x \in Values : Cardinality(HierarchyErrors(x)) = (IF Cardinality(Combinations(x)) > 1 THEN 1 ELSE 0)

\* C9: check_hierarchies records, for a last-level value under k combinations
\* of (non-null) higher-level values, k - 1 errors, however many rows hold
\* them: one for each combination after the first in sorted order, naming the
\* first and that combination.  Exactly one error when k = 2, none when k = 1.
C9_OneErrorPerExtraCombination ==
    last.op = "check_hierarchies" /\ last.outcome = "none" =>
        /\ \A x \in Values :
            /\ Combinations(x) = {} => HierarchyErrors(x) = {}
            /\ Combinations(x) # {} =>
                /\ Cardinality(HierarchyErrors(x)) = Cardinality(Combinations(x)) - 1
                /\ {NewErrors[i][5] : i \in HierarchyErrors(x)} = Combinations(x) \ {First(Combinations(x))}
                /\ \A i \in HierarchyErrors(x) : NewErrors[i][4] = First(Combinations(x)) /\ NewErrors[i][3] = LevelsOfH[Len(LevelsOfH)]
        /\ Len(NewErrors) = Cardinality(UNION {HierarchyErrors(x) : x \in Values})
        /\ NewWarnings = <<>>

\* the value 1 under three combinations: two errors
C9_Witness ==
    /\ last.op = "check_hierarchies" /\ last.outcome = "none"
    /\ Cardinality(Combinations(1)) = 3
    /\ Cardinality(HierarchyErrors(1)) = 2

\* the value 2 under two combinations of a three-level hierarchy, in three
\* rows: one error
C9_WitnessTwo ==
    /\ last.op = "check_hierarchies" /\ last.outcome = "none"
    /\ Len(LevelsOfH) = 3 /\ Len(data.rows) = 3
    /\ Cardinality(Combinations(2)) = 2
    /\ \A i \in 1..Len(data.rows) : data.rows[i]["C"] = 2
    /\ Cardinality(HierarchyErrors(2)) = 1

----------------------------------------------------------------------------
(* C10 *)

\* the declared data type is one of the names of DataTypes
DeclaresKnownType(item) == HasProperty(item, "datatype") /\ DataTypeNamed(Upper(item.datatype)) \in DataTypes

\* C10: check_data_type on an item whose column is in the data records
\* nothing when no data type is declared or the observed type is the expected
\* one, one warning and no error when DATETIME or OBJECT is observed against
\* an expected DATE, and one "wrong type" error and no warning for any other
\* mismatch.  The declared name is one DataTypes has.
C10_DataTypeTable ==
    last.op = "check_data_type" /\ HasColumn(get_column_name(ItemNamed(last.item))) =>
        LET item == ItemNamed(last.item)
            expected == DataTypeNamed(Upper(item.datatype))
            actual == get_column_data_type(item)
            message == <<"type", item.name, expected, actual>>
        IN  IF ~HasProperty(item, "datatype") THEN NewErrors = <<>> /\ NewWarnings = <<>>
            ELSE DeclaresKnownType(item) =>
                    IF actual = expected THEN NewErrors = <<>> /\ NewWarnings = <<>>
                    ELSE IF expected = "DataTypes.DATE" /\ actual \in {"DataTypes.DATETIME", "DataTypes.OBJECT"}
                         THEN NewErrors = <<>> /\ NewWarnings = <<message>>
                    ELSE NewErrors = <<message>> /\ NewWarnings = <<>>

\* a pandas object column against a declared date: a warning
C10_Witness ==
    /\ last.op = "check_data_type" /\ backend = "DataFrame"
    /\ ItemNamed(last.item).name = "A" /\ HasProperty(ItemNamed(last.item), "datatype")
    /\ ItemNamed(last.item).datatype = "Date" /\ data.dtypes["A"] = "object"
    /\ NewWarnings = <<<<"type", "A", "DataTypes.DATE", "DataTypes.OBJECT">>>> /\ NewErrors = <<>>

\* a mismatch that is an error: text against a declared int
C10_WitnessError ==
    /\ last.op = "check_data_type"
    /\ DeclaresKnownType(ItemNamed(last.item))
    /\ NewErrors = <<<<"type", "A", "DataTypes.INT", "DataTypes.TEXT">>>> /\ NewWarnings = <<>>

----------------------------------------------------------------------------
(* C11 *)

\* the value, as a cell of the column, fails the item's pattern
FailsPattern(item, x) == x # NULL /\ ~re_match(item.pattern, Str(x))

\* C11: check_pattern_match on an item with a pattern records one error for
\* every distinct non-null value of the column that fails the pattern, all of
\* them and not only the first, and nothing for a null or a matching value.
C11_PatternErrors ==
    Checked("check_pattern_match", "pattern") =>
        LET item == ItemNamed(last.item)
            column == get_column_name(item)
        IN  /\ \A x \in Cells : Count(NewErrors, <<"pattern", item.name, x, item.pattern>>) = (IF Occurs(column, x) /\ FailsPattern(item, x) THEN 1 ELSE 0)
            /\ Len(NewErrors) = Cardinality({x \in Cells : Occurs(column, x) /\ FailsPattern(item, x)})
            /\ NewWarnings = <<>>

\* the same for the validators that read a null as None
C11_NullsAsNone == backend # "Sql" => C11_PatternErrors

\* two failing values in one call, both reported
C11_TwoFailures ==
    /\ Checked("check_pattern_match", "pattern") /\ backend = "Hyper"
    /\ Len(NewErrors) = 2 /\ NewErrors[1][3] # NewErrors[2][3]

----------------------------------------------------------------------------
(* C13 *)

\* C13: no two items of a Metadata collection have the same name, whatever
\* add_item, merge_items and metadata_from_json calls built it.
C13_UniqueByName == \A i \in 1..Len(metadata) : \A j \in 1..Len(metadata) : metadata[i].name = metadata[j].name => i = j

----------------------------------------------------------------------------
(* C14 *)

\* C14: save followed by metadata_from_json gives back the collection that
\* was saved: its name, its properties, and every item in order with its
\* name, its description and its properties, whatever the properties are.
C14_RoundTrip ==
    [][(file.written /\ file = save /\ MetadataFromJson) => (collection' = collection /\ metadata' = metadata)]_vars

\* a property is kept under a key that the document uses for an attribute
ReservedKey(item) == DOMAIN item.properties \cap {"name", "description"} # {}

\* nothing of the collection changes on its way through JSON
JsonNative ==
    /\ "name" \notin DOMAIN collection.properties
    /\ \A i \in 1..Len(metadata) : ~ReservedKey(metadata[i]) /\ json_object(metadata[i].properties) = metadata[i].properties

\* the round trip of a collection whose property keys are not name or
\* description and whose property values are JSON values
C14_RoundTripOfJsonNative ==
    [][(JsonNative /\ file.written /\ file = save /\ MetadataFromJson) => (collection' = collection /\ metadata' = metadata)]_vars

----------------------------------------------------------------------------
(* C20 *)

\* C20: validate_metadata returns True exactly when every item of the
\* dataset specification has a Metadata Item, and False when one has none.
C20_TrueIffAllResolve ==
    last.op = "validate_metadata" =>
        (last.outcome = "True" <=> \A i \in 1..Len(items) : get_metadata(items[i]) # 0)

----------------------------------------------------------------------------
(* C15 *)

\* the items of the collection that are not calculated
StoredItems == {item \in SeqToSet(metadata) : ~HasProperty(item, "formula")}

\* C15: on each of the three validators the presence check of an item
\* looks up the column the item resolves to (output_name, else
\* physical_column_name, else the name): it succeeds exactly when that
\* column is in the data.
C15_SameResolution ==
    \A item \in StoredItems : check_column_present(RunState(<<>>, <<>>), item).result = HasColumn(get_column_name(item))

\* the same for the two validators that resolve the column
C15_OffSql == backend # "Sql" => C15_SameResolution

----------------------------------------------------------------------------
(* C12 *)

NotAvailable == "NotImplementedError: Dataframe is not available when using a streaming extractor"

\* C12: whatever a StreamingDataExtractor has done before, get_data_frame
\* fails with "Dataframe is not available when using a streaming
\* extractor".
C12_NeverAFrame ==
    extractor.kind = "StreamingDataExtractor" /\ last.op = "get_data_frame" => last.outcome = NotAvailable

\* it does as long as no streaming call has validated or minimised a chunk
C12_BeforeAChunk ==
    extractor.kind = "StreamingDataExtractor" /\ last.op = "get_data_frame" /\ ~extractor.loaded => last.outcome = NotAvailable

----------------------------------------------------------------------------
(* C16 *)

\* the rows a total is taken over
RowsOfTotal == IF extractor.kind = "StreamingDataExtractor" THEN Execute(create_query(constraints)) ELSE source.rows

\* C16: get_total() without a measure returns the sum of the first measure
\* of the specification when it has one, the number of rows when it has
\* none; on a DataExtractor, a HyperFile and a StreamingDataExtractor alike.
C16_FirstMeasureOrRows ==
    last.op = "get_total" /\ last.item = None /\ last.outcome = "none" =>
        last.value = IF Len(measures) > 0 THEN <<Sum(Known(RowsOfTotal, measures[1]))>> ELSE <<Len(RowsOfTotal)>>

\* the same for the extractors other than HyperFile
C16_OffHyperFile == extractor.kind # "HyperFile" => C16_FirstMeasureOrRows

----------------------------------------------------------------------------
(* C17 *)

\* C17: when no extractor call is in progress, every connection a call
\* opened has been closed.
C17_ConnectionsReleased == stream.pc = "idle" => connections = 0

----------------------------------------------------------------------------
(* C18 *)

\* the items of the specification that have a Metadata Item and no formula
ItemsStored == SelectSeq(items, LAMBDA item : get_metadata(item) # 0 /\ ~HasProperty(metadata[get_metadata(item)], "formula"))

\* C18: after get_data_frame has minimised the frame of a DataExtractor,
\* its columns are the resolved columns of the specification's items that
\* have a Metadata Item and are not calculated, in the order of the items.
C18_ColumnsOfStoredItems ==
    extractor.kind = "DataExtractor" /\ last.op = "get_data_frame" /\ last.item = Keyword(TRUE) /\ last.outcome = "none" =>
        data.columns = [i \in 1..Len(ItemsStored) |-> get_column_name(metadata[get_metadata(ItemsStored[i])])]

\* the same when no formula is blank
C18_NoBlankFormula ==
    (\A i \in 1..Len(metadata) : HasProperty(metadata[i], "formula") => Truthy(metadata[i], "formula")) => C18_ColumnsOfStoredItems

\* minimising a minimised frame changes nothing
C18_Idempotent ==
    [][extractor.kind = "DataExtractor" /\ last.op = "get_data_frame" /\ last.item = Keyword(TRUE) /\ last.outcome = "none"
       /\ last'.op = "get_data_frame" /\ last'.item = Keyword(TRUE) => data' = data]_vars

----------------------------------------------------------------------------
(* C19 *)

\* the constraints with the constraint on the partition column allowing v
\* alone
PartitionedOn(v) == [k \in 1..Len(constraints) |-> IF constraints[k].item = extractor.partition_column THEN Constraint(constraints[k].item, <<v>>) ELSE constraints[k]]

\* the rows written for a result: all its columns, or those minimisation
\* keeps
Written(rows) == IF stream.minimise THEN [i \in 1..Len(rows) |-> [c \in SeqToSet(columns_to_keep) |-> rows[i][c]]] ELSE rows

RECURSIVE ResultsOf(_)
\* the results of the queries for the values, one after the other
ResultsOf(values) == IF values = <<>> THEN <<>> ELSE Written(Execute(create_query(PartitionedOn(Head(values))))) \o ResultsOf(Tail(values))

\* the rows of the output file: its lines but the header, without the
\* row_number column
RowsOf(lines) ==
    LET rows == SelectSeq(lines, LAMBDA line : "header" \notin DOMAIN line)
    IN  [i \in 1..Len(rows) |-> [c \in DOMAIN rows[i] \ {"row_number"} |-> rows[i][c]]]

PartitionStreamed == last.op \in {"stream_sql_to_csv", "stream_sql_to_hyper"} /\ stream.pc = "idle" /\ last.outcome = "none"

----------------------------------------------------------------------------
(* C22 *)

\* an item of the specification declares a data type DataTypes has no member for
UnknownTypeDeclared == \E i \in 1..Len(metadata) : metadata[i].name \in SeqToSet(items) /\ HasProperty(metadata[i], "datatype") /\ ~DeclaresKnownType(metadata[i])

\* every item of the specification has its column in the data
AllColumnsHeld == \A i \in 1..Len(metadata) : metadata[i].name \in SeqToSet(items) => HasColumn(get_column_name(metadata[i]))

\* C22: a declared data type that is not a recognised name never aborts
\* validation with an exception: check_data_type records at most one
\* ordinary warning or error for the item, and validate_data runs to its end,
\* returning or raising only the validation failure.
C22_UnknownTypeNeverAborts ==
    /\ last.op = "check_data_type" /\ HasProperty(ItemNamed(last.item), "datatype") /\ ~DeclaresKnownType(ItemNamed(last.item)) /\ HasColumn(get_column_name(ItemNamed(last.item)))
        => last.outcome = "none" /\ Len(NewErrors) + Len(NewWarnings) <= 1
    /\ last.op = "validate_data" /\ last.flags = NoFlags /\ UnknownTypeDeclared /\ AllColumnsHeld
        => last.outcome \in {"none", ValidationFailure}

----------------------------------------------------------------------------
(* C30 *)

\* DataFrameValidator.check_column_present: the item is skipped as calculated
\* when its formula property is not None
CalculatedForValidator(item) == HasProperty(item, "formula")

\* DataExtractor.__minimise_data__: the item's column is dropped when its
\* formula property is truthy
CalculatedForMinimise(item) == Truthy(item, "formula")

\* SubsetQueryBuilder.create_query: the item is left out of the selected
\* fields when its formula property is truthy
select_fields == SelectSeq(items, LAMBDA field : ~Truthy(metadata[get_metadata(field)], "formula"))

CalculatedForQuery(item) == item.name \notin SeqToSet(select_fields)

\* the items of the specification, each with a Metadata Item
ItemsOfSpecification == {metadata[i] : i \in {j \in 1..Len(metadata) : metadata[j].name \in SeqToSet(items)}}

\* C30: the validator's presence check, the extractor's minimisation and
\* SubsetQueryBuilder.create_query classify the same items as calculated,
\* whatever the value of the formula property.
C30_SameCalculated ==
    (\A name \in SeqToSet(items) : get_metadata(name) # 0) =>
        \A item \in ItemsOfSpecification :
            /\ CalculatedForValidator(item) = CalculatedForMinimise(item)
            /\ CalculatedForMinimise(item) = CalculatedForQuery(item)

\* the three agree on every item whose formula is unset or not blank
C30_SameUnlessBlank ==
    (\A name \in SeqToSet(items) : get_metadata(name) # 0) =>
        \A item \in ItemsOfSpecification :
            ~(HasProperty(item, "formula") /\ item.formula = "") =>
                /\ CalculatedForValidator(item) = CalculatedForMinimise(item)
                /\ CalculatedForMinimise(item) = CalculatedForQuery(item)

----------------------------------------------------------------------------
(* C24 *)

\* the frame of the extractor lacks the column of an item of the
\* specification that has no formula
LacksAColumn == \E item \in ItemsOfSpecification : ~HasProperty(item, "formula") /\ ~HasColumn(get_column_name(item))

\* C24: when the loaded data lacks the column of a non-calculated item of
\* the specification, DataExtractor.validate_data ends in the validation
\* failure the validator raises for the missing column, not in another
\* exception raised before the validator runs.
C24_MissingColumnReported ==
    /\ extractor.kind = "DataExtractor" /\ last.op = "validate_data" /\ stream.pc = "idle"
    /\ \A name \in SeqToSet(items) : get_metadata(name) # 0
    /\ LacksAColumn
    => last.outcome = ValidationFailure

\* a validate_data of a DataExtractor that returned: the frame has the
\* column of every item without a formula
C24_ReturnsOnlyWhenComplete ==
    extractor.kind = "DataExtractor" /\ last.op = "validate_data" /\ stream.pc = "idle" /\ last.outcome = "none"
    /\ (\A name \in SeqToSet(items) : get_metadata(name) # 0)
    => ~LacksAColumn

----------------------------------------------------------------------------
(* C25 *)

\* a streaming call of a PartitioningExtractor with validate=True has ended
PartitionValidated ==
    /\ extractor.kind = "PartitioningExtractor" /\ HasPartition
    /\ last.op \in {"stream_sql_to_csv", "stream_sql_to_hyper"} /\ stream.pc = "idle" /\ stream.validate

\* C25: a PartitioningExtractor streaming call with validate=True validates
\* each chunk as it is read: the call raises the validation failure for a
\* chunk with errors, and writes a chunk without errors and goes on, so that
\* it ends either normally with every chunk written or in the validation
\* failure.
C25_ChunksValidated ==
    PartitionValidated =>
        \/ last.outcome = "none" /\ RowsOf(output) = ResultsOf(get_partition_values)
        \/ last.outcome = ValidationFailure

\* what the call does instead: it raises NotImplementedError on its first
\* chunk, with nothing written
C25_NotImplemented == PartitionValidated => last.outcome = "NotImplementedError" /\ output = <<>> /\ Len(queries) = 1

----------------------------------------------------------------------------
(* C23 *)

\* a streaming call of a StreamingDataExtractor with validate=True, in
\* progress or the last call made
StreamingValidated ==
    /\ extractor.kind = "StreamingDataExtractor" /\ stream.validate
    /\ stream.op \in {"stream_sql_to_csv", "stream_sql_to_hyper", "validate_data"}
    /\ stream.pc # "idle" \/ (last.op = stream.op /\ last.item = None)

\* the rows of a frame
Projected(rows) == [i \in 1..Len(rows) |-> [c \in SeqToSet(columns_to_keep) |-> rows[i][c]]]

\* C23: with validate=True a StreamingDataExtractor streaming call takes the
\* chunks in the order they are read; each chunk is validated, then
\* minimised if asked for, and only then written.  What is written is at
\* every moment the rows of the chunks before the one in hand; when the
\* validation of a chunk raises, the chunks before it are written and that
\* chunk, which is left in _data, and the later ones are not.
C23_ValidatedThenWritten ==
    StreamingValidated =>
        LET result == Execute(queries[1])
            written == Len(RowsOf(output))
            held == IF stream.pc \in {"validate", "check", "write"} THEN Len(stream.df.rows) ELSE 0
        IN  /\ RowsOf(output) = Written(SubSeq(result, 1, written))
            /\ stream.pc # "idle" => written + held + Len(stream.cursor) = Len(result)
            /\ stream.pc = "write" => data = minimise_data(stream.df).frame /\ validator.exc = "none"
            /\ stream.pc = "idle" /\ last.outcome = "none" => written = Len(result)
            /\ stream.pc = "idle" /\ last.outcome # "none" => written % stream.chunk_size = 0 /\ (written < Len(result) \/ result = <<>>)
            /\ stream.pc = "idle" /\ last.outcome = ValidationFailure =>
                   /\ data.rows = Projected(SubSeq(result, written + 1, Smaller(written + stream.chunk_size, Len(result))))

\* the first chunk was written, the validation of the second raised
C23_Witness ==
    /\ StreamingValidated /\ stream.op = "stream_sql_to_csv" /\ stream.pc = "idle"
    /\ last.outcome = ValidationFailure
    /\ stream.chunk_size = 1 /\ Len(RowsOf(output)) = 1 /\ Len(Execute(queries[1])) = 3

----------------------------------------------------------------------------
(* C26 *)

\* C26: a DataExtractor loads lazily and at most once.  It is unloaded until
\* the first get_data_frame, validate_data, get_total or save_data_as_*,
\* which loads the data; from then on it stays loaded and the source is not
\* read again, however those calls end.
C26_LoadedOnce ==
    extractor.kind = "DataExtractor" =>
        /\ extractor.loaded <=> stream.op = "validate_data" \/ last.op \in {"get_data_frame", "validate_data", "get_total", "save_data_as_csv", "save_data_as_hyper"}
        /\ ~extractor.loaded <=> stream = Idle /\ last.op = "__init__"
        /\ extractor.loads = (IF extractor.loaded THEN 1 ELSE 0)

\* get_data_frame(minimise=False) returns the frame an earlier call
\* minimised, not the source read anew
C26_Witness ==
    /\ extractor.kind = "DataExtractor" /\ extractor.loads = 1
    /\ last.op = "get_data_frame" /\ last.item = Keyword(FALSE) /\ last.outcome = "none"
    /\ data.columns # source.columns

\* a call that raised KeyError while minimising left the data loaded
C26_WitnessRaised ==
    /\ extractor.kind = "DataExtractor" /\ extractor.loads = 1 /\ extractor.loaded
    /\ last.op = "save_data_as_csv" /\ last.outcome = "KeyError"

----------------------------------------------------------------------------
(* C27 *)

\* a stream_sql_to_csv call of a streaming extractor, in progress or the
\* last call made
StreamingToCsv ==
    /\ Streams /\ stream.op = "stream_sql_to_csv"
    /\ stream.pc # "idle" \/ (last.op = "stream_sql_to_csv" /\ last.item = None)

IsHeader(line) == "header" \in DOMAIN line

C27_WitnessStreaming ==
    /\ StreamingToCsv /\ extractor.kind = "StreamingDataExtractor" /\ stream.pc = "idle" /\ last.outcome = "none"
    /\ stream.chunk_size = 2 /\ Len(output) = 4 /\ IsHeader(output[1])

----------------------------------------------------------------------------
(* C28 *)

\* a streaming call of a PartitioningExtractor with include_row_numbers=True,
\* in progress or the last call made
PartitionNumbered ==
    /\ extractor.kind = "PartitioningExtractor" /\ stream.include_row_numbers
    /\ stream.op \in {"stream_sql_to_csv", "stream_sql_to_hyper"}
    /\ stream.pc # "idle" \/ (last.op = stream.op /\ last.item = None)

\* the lines of the output file that are rows
Numbered == SelectSeq(output, LAMBDA line : ~IsHeader(line))

\* C28: with include_row_numbers=True one PartitioningExtractor streaming
\* call numbers the rows it writes 0, 1, 2, ... across all chunks and all
\* partitions, no number repeated or skipped, and after each chunk its
\* running counter is the number of rows numbered so far.
C28_ConsecutiveRowNumbers ==
    PartitionNumbered =>
        /\ \A i \in 1..Len(Numbered) : "row_number" \in DOMAIN Numbered[i] /\ Numbered[i].row_number = i - 1
        /\ stream.pc # "idle" => stream.row_counter = Len(Numbered)
        /\ PartitionStreamed => Len(Numbered) = Len(ResultsOf(get_partition_values))

\* three rows numbered over three chunks of two partitions
C28_Witness ==
    /\ PartitionNumbered /\ PartitionStreamed /\ stream.op = "stream_sql_to_hyper"
    /\ stream.chunk_size = 1 /\ Len(queries) = 2 /\ Len(Numbered) = 3
    /\ Numbered[3].row_number = 2

----------------------------------------------------------------------------
(* C29 *)

\* the rows of the file, without the column row_number
RowsOfSource == [i \in 1..Len(source.rows) |-> [c \in DOMAIN source.rows[i] \ {"row_number"} |-> source.rows[i][c]]]

\* what holds at every moment of HyperFile.save_data_as_csv: the offset is
\* a multiple of chunk_size, what is written is the rows before the offset
\* in row_number order under one header; after the call every row of the
\* file is written once, in row_number order when the file has row numbers
C29_WrittenInOrder ==
    extractor.kind = "HyperFile" /\ stream.op = "save_data_as_csv" =>
        /\ stream.pc = "hyper_csv" =>
              /\ stream.offset % stream.chunk_size = 0
              /\ Len(RowsOf(output)) = Smaller(stream.offset, Len(source.rows))
              /\ RowsOf(output) = RowsOf(SubSeq(ByRowNumber(stream.df.rows), 1, Len(RowsOf(output))))
              /\ Len(stream.df.rows) = Len(source.rows)
        /\ stream.pc = "idle" =>
              /\ last.op = "save_data_as_csv" /\ last.outcome = "none"
              /\ Len(RowsOf(output)) = Len(source.rows)
              /\ \A row \in SeqToSet(RowsOfSource) : Count(RowsOf(output), row) = Count(RowsOfSource, row)
              /\ "row_number" \in SeqToSet(source.columns) => RowsOf(output) = RowsOf(ByRowNumber(source.rows))
        /\ output # <<>> => IsHeader(output[1]) /\ \A i \in 2..Len(output) : ~IsHeader(output[i]) /\ "row_number" \notin DOMAIN output[i]

\* C29: HyperFile.save_data_as_csv terminates for every positive chunk_size
\* and every table size: it reads the chunks at the offsets 0, chunk_size,
\* 2*chunk_size, ... in row_number order, stops at the first empty chunk, and
\* has then written every row exactly once in row_number order.
C29_Terminates == []C29_WrittenInOrder /\ (stream.pc = "hyper_csv" ~> stream.pc = "idle")

\* a file of three numbered rows held out of order, written in two chunks
C29_Witness ==
    /\ extractor.kind = "HyperFile" /\ stream.op = "save_data_as_csv" /\ stream.pc = "idle" /\ last.outcome = "none"
    /\ stream.chunk_size = 2 /\ Len(source.rows) = 3 /\ "row_number" \in SeqToSet(source.columns)
    /\ source.rows[1].row_number = 2 /\ source.rows[1].A = 2 /\ source.rows[2].A = 1 /\ source.rows[3].A = 1
    /\ Len(output) = 4 /\ output[4].A = 2

----------------------------------------------------------------------------
(* C21 *)

\* the constructor is called with arguments that pass the checks before the
\* one on the output folder
PassesEarlierChecks(arguments) ==
    /\ ~(arguments.use_excel_builder /\ arguments.template \in {None, "missing.xlsx"})
    /\ folders[arguments.source_path].exists
    /\ arguments.source_path # arguments.output_path

\* C21: constructing a DatasetSplitter whose output folder exists and
\* contains any subdirectory raises ValueError and deletes nothing.
C21_SubdirectoriesRefused ==
    [][last'.op = "DatasetSplitter" /\ PassesEarlierChecks(last'.item)
       /\ folders[last'.item.output_path].exists /\ folders[last'.item.output_path].depth >= 1
       => last'.outcome = "ValueError: Output folder contains subdirectories" /\ folders' = folders]_vars

\* the same for an output folder whose subdirectories have subdirectories
C21_NestedRefused ==
    [][last'.op = "DatasetSplitter" /\ PassesEarlierChecks(last'.item)
       /\ folders[last'.item.output_path].exists /\ folders[last'.item.output_path].depth >= 2
       => last'.outcome = "ValueError: Output folder contains subdirectories" /\ folders' = folders]_vars

\* the output folder is removed and recreated only when every check of the
\* constructor has passed, and nothing else is touched
C21_RemovedAfterAllChecks ==
    [][last'.op = "DatasetSplitter" =>
          /\ last'.outcome # "none" => folders' = folders
          /\ last'.outcome = "none" =>
                /\ PassesEarlierChecks(last'.item)
                /\ ~subdirectories(folders[last'.item.source_path])
                /\ folders' = [folders EXCEPT ![last'.item.output_path] = Empty]]_vars

====
